---- MODULE Spec2Model ----
(***************************************************************************)
(* Trading-signal bots of phearinyeun/trading_tool.                        *)
(*                                                                         *)
(* The repository holds several near-duplicate bots.  This module models   *)
(* the ones that keep per-symbol state across cycles:                      *)
(*   variant "v2"  - src/pro_trader_bot_v2.py  (synchronous, simulated     *)
(*                   trades with TP/SL/time exit)                          *)
(*   variant "fut" - src/trader_bot_futures.py (asyncio, ATR levels)       *)
(*   variant "ma"  - src/market_analyzer_full_with_hold.py (alerts only)   *)
(*   variant "ai"  - src/trader_bot_ai.py      (alerts only, TA + AI)      *)
(*                                                                         *)
(* Prices and price levels are fixed-point numbers counted in millionths   *)
(* (the finest rounding the code uses is 6 decimals).  round(x, d) is      *)
(* modelled on exact rationals with ties going to the even neighbour.      *)
(* Time is counted in seconds.                                             *)
(***************************************************************************)
EXTENDS Integers, Sequences, FiniteSets, TLC

\* ------------------------------------------------------------------------
\* Configuration (os.getenv defaults unless noted)
\* ------------------------------------------------------------------------
SLEEP_TIME == 60

HOLD_ALERT_INTERVAL == 1800

TRADE_EVAL_SECONDS == 600

DASHBOARD_INTERVAL == 1800


\* timedelta(hours=7), in seconds
JAKARTA_OFFSET == 25200

\* LEVERAGE of trader_bot_futures (default 5)
LEVERAGE == 5

\* volatility=0.005 (default argument / VOLATILITY), as the fraction 1/200
DefaultVol == [num |-> 1, den |-> 200]

\* ------------------------------------------------------------------------
\* Bounds of the model
\* ------------------------------------------------------------------------
\* the clock stops advancing past MaxTime seconds
MaxTime == 3900

\* the same for trader_bot_futures, whose trades never expire
MaxTimeFut == 2100

\* CANDLE_HISTORY of pro_trader_bot_v2 and trader_bot_ai (default 50), which
\* only draw the history; scaled down
CANDLE_HISTORY == 1

\* CANDLE_HISTORY of trader_bot_futures (default 100), scaled down
CANDLE_HISTORY_FUT == 2

\* CANDLE_HISTORY of market_analyzer_full_with_hold (default 30), scaled down
CANDLE_HISTORY_MA == 2

\* ATR_PERIOD of trader_bot_futures (default 14), scaled down
ATR_PERIOD == 2

\* the clock stops advancing past MaxTimePair seconds when two symbols are
\* configured
MaxTimePair == 300

\* trading_signal_bot is followed for this many seconds
MaxTimePoll == 20

\* trading_signal_bot.main: POLL_INTERVAL, seconds
POLL_INTERVAL == 10

\* hours between two daily summaries of trading_signal_bot
SUMMARY_HOURS == 24

\* the hourly signal bots are followed for this many seconds
MaxTimeScan == 7200

\* timedelta(hours=1), seconds
HOUR == 3600

\* pro_trader_bot_v3 is followed for this many seconds
MaxTimeV3 == 720

\* pro_trader_bot_v3: SUMMARY_INTERVAL, seconds
SUMMARY_INTERVAL == 300

\* pro_trader_bot_v3.check_trade: minutes after which a position is closed
RESULT_MINUTES == 10

\* time one pass of the main loop takes beyond SLEEP_TIME (fetches, retries,
\* chart rendering): a loop iteration lasts 300 s or 900 s
Lags == {240, 840}

\* one millionth is the unit: 1.0 = Micro
Micro == 10^6

\* prices the price feed can return: 0.00001, 98, 100, 101.5, 102.5
Prices == {10, 98 * Micro, 100 * Micro, 203 * (Micro \div 2), 205 * (Micro \div 2)}

\* prices fed to trader_bot_futures: 98, 100, 101.5, 102.5
PricesFut == {p \in Prices : p >= Micro}

\* recommendation strings TradingView returns, plus the "HOLD" fallback
Recs == {"BUY", "SELL", "NEUTRAL", "STRONG_BUY", "HOLD"}

Variants == {"v2", "fut", "ma", "ai"}

AllSymbols == {"BTCUSDT", "ETHUSDT"}

NoTime == -1

\* ------------------------------------------------------------------------
\* Arithmetic helpers
\* ------------------------------------------------------------------------
Abs(x) == IF x < 0 THEN -x ELSE x

\* n / d rounded to the nearest integer, ties to even (Python 3 round)
RoundHalfEven(n, d) ==
    LET q == n \div d
        r == n % d
    IN  IF 2 * r < d THEN q
        ELSE IF 2 * r > d THEN q + 1
        ELSE IF q % 2 = 0 THEN q ELSE q + 1

\* one unit of the last kept decimal, in millionths
Quantum(decimals) == 10 ^ (6 - decimals)

\* round(n / den, decimals) for n / den in millionths
RoundTo(n, den, decimals) ==
    Quantum(decimals) * RoundHalfEven(n, den * Quantum(decimals))

\* round(price * num / den, decimals), split so no product leaves 32 bits
RoundScaled(price, num, den, decimals) ==
    LET D == den * Quantum(decimals)
        a == price \div D
        r == price % D
        whole == a * num + ((r * num) \div D)
        rem == (r * num) % D
    IN  Quantum(decimals) *
        (IF 2 * rem < D THEN whole
         ELSE IF 2 * rem > D THEN whole + 1
         ELSE IF whole % 2 = 0 THEN whole ELSE whole + 1)

RECURSIVE GCD(_, _)
GCD(a, b) == IF b = 0 THEN a ELSE GCD(b, a % b)

\* the float n / d (d > 0), kept exact as a fraction in lowest terms
Frac(n, d) ==
    LET g == GCD(Abs(n), d)
    IN  [num |-> n \div g, den |-> d \div g]

\* the float f * k (k > 0), in lowest terms
MulFrac(f, k) ==
    LET g == GCD(k, f.den)
    IN  [num |-> f.num * (k \div g), den |-> f.den \div g]

\* ------------------------------------------------------------------------
\* pro_trader_bot_v2: levels
\* ------------------------------------------------------------------------
\* price_decimals without the 6-decimal tier for prices below 1
price_decimals_two_tiers(price) ==
    IF price >= 100 * Micro THEN 2 ELSE 4

price_decimals(price) ==
    IF price >= 100 * Micro THEN 2
    ELSE IF price >= Micro THEN 4
    ELSE 6

compute_levels(price, signal, volatility) ==
    LET decimals == price_decimals(price)
        n == volatility.num
        d == volatility.den
    IN  IF signal = "BUY" THEN
            [entry |-> price,
             sl  |-> RoundScaled(price, d - n, d, decimals),
             tp1 |-> RoundScaled(price, d + 2 * n, d, decimals),
             tp2 |-> RoundScaled(price, d + 4 * n, d, decimals)]
        ELSE IF signal = "SELL" THEN
            [entry |-> price,
             sl  |-> RoundScaled(price, d + n, d, decimals),
             tp1 |-> RoundScaled(price, d - 2 * n, d, decimals),
             tp2 |-> RoundScaled(price, d - 4 * n, d, decimals)]
        ELSE
            [entry |-> price,
             sl  |-> RoundTo(price, 1, decimals),
             tp1 |-> RoundTo(price, 1, decimals),
             tp2 |-> RoundTo(price, 1, decimals)]

\* ------------------------------------------------------------------------
\* State
\* ------------------------------------------------------------------------
VARIABLES
    variant,          \* which bot is running
    tv_symbols,       \* TV_SYMBOLS, the configured symbols in order
    now,              \* wall clock, seconds
    pc,               \* position in the main loop: "symbols", "tail"
    todo,             \* symbols the current loop iteration has still to analyse
    last_dashboard,   \* main(): last_dashboard
    last_signals,     \* last_signals[tv]: "None", "BUY", "SELL", "HOLD"
    hold_start_time,  \* hold_start_time[tv]: NoTime or a jakarta timestamp
    price_history,    \* price_history[tv]: deque(maxlen=CANDLE_HISTORY)
    active_targets,   \* active_targets[tv]: tp1_sent, tp2_sent, sl_sent
    active_trades,    \* active_trades: dict tv -> trade (absent when no trade)
    outbox,           \* Telegram messages sent by the last step, in order
    trades_log,       \* rows appended to trades_log.csv by the last step
    hold_alerts,      \* per symbol, when its last two HOLD alerts were sent
    cycle,            \* what the last step was given and what it did
    call,             \* a function called on its own: arguments and result
    tasks             \* per symbol, where its analyze_symbol call of this loop
                      \* iteration stands, and its local variables

vars == <<variant, tv_symbols, now, pc, todo, last_dashboard, last_signals,
          hold_start_time, price_history, active_targets, active_trades,
          outbox, trades_log, hold_alerts, cycle, call, tasks>>

SymbolsOf(tv) == {tv[i] : i \in DOMAIN tv}

\* how long the main loop is followed
Horizon(v) ==
    IF Len(tv_symbols) > 1 THEN MaxTimePair
    ELSE IF v = "fut" THEN MaxTimeFut ELSE MaxTime

NoFlags == [tp1_sent |-> FALSE, tp2_sent |-> FALSE, sl_sent |-> FALSE]

\* cycle when the last step was no analyze_symbol pass
NoCycle == [sym |-> "-", fetched |-> FALSE, price |-> 0, decision |-> "None",
            prev |-> "None", had_trade |-> FALSE, opened |-> FALSE,
            watched |-> <<>>, at |-> 0]

Msg(kind, sym, level, reason) ==
    [kind |-> kind, sym |-> sym, level |-> level, reason |-> reason]

\* active_trades = {}
EmptyDict == [x \in {} |-> 0]

\* an analyze_symbol call that has not started; at is the statement an
\* exception was raised at, missing whether a vote fetch gave no data
NoTask == [pc |-> "idle", price |-> 0, decision |-> "None", trade |-> <<>>,
           missing |-> FALSE, at |-> "none"]

\* no analyze_symbol call of this loop iteration has started
NoTasks(tv) == [s \in SymbolsOf(tv) |-> NoTask]

\* no function is being called on its own
NoCall == [fn |-> "none", args |-> <<>>, done |-> FALSE, result |-> <<>>]

\* the module state right after import
Idle(v, tv) ==
    /\ variant = v
    /\ tv_symbols = tv
    /\ now = 0
    /\ pc = "symbols"
    /\ todo = tv
    /\ last_dashboard = 0
    /\ tasks = NoTasks(tv)
    /\ last_signals = [s \in SymbolsOf(tv) |-> "None"]
    /\ hold_start_time = [s \in SymbolsOf(tv) |-> NoTime]
    /\ price_history = [s \in SymbolsOf(tv) |-> <<>>]
    /\ active_targets = [s \in SymbolsOf(tv) |-> NoFlags]
    /\ active_trades = EmptyDict
    /\ outbox = <<>>
    /\ trades_log = <<>>
    /\ hold_alerts = [s \in SymbolsOf(tv) |-> <<>>]
    /\ cycle = NoCycle

InitFor(v, tv) ==
    /\ Idle(v, tv)
    /\ call = NoCall

\* ------------------------------------------------------------------------
\* Pieces shared by the bots
\* ------------------------------------------------------------------------
\* maxlen of the bot's price_history deques
maxlen(v) ==
    IF v = "fut" THEN CANDLE_HISTORY_FUT
    ELSE IF v = "ma" THEN CANDLE_HISTORY_MA
    ELSE CANDLE_HISTORY

\* append of a list without maxlen
deque_append_unbounded(q, x) == Append(q, x)

\* deque(maxlen=CANDLE_HISTORY).append
deque_append(q, x) ==
    IF Len(q) < maxlen(variant) THEN Append(q, x)
    ELSE Append(Tail(q), x)

LastN(q, n) == IF Len(q) <= n THEN q ELSE SubSeq(q, Len(q) - n + 1, Len(q))

Count(votes, x) == Cardinality({i \in DOMAIN votes : votes[i] = x})

\* combine that takes one vote for a majority
combine_any_vote(signals) ==
    IF Count(signals, "BUY") >= 1 THEN "BUY"
    ELSE IF Count(signals, "SELL") >= 1 THEN "SELL"
    ELSE "HOLD"

\* combine that lets the first timeframe decide when there is no majority
combine_first_decides(signals) ==
    IF Count(signals, "BUY") >= 2 THEN "BUY"
    ELSE IF Count(signals, "SELL") >= 2 THEN "SELL"
    ELSE IF signals[1] \in {"BUY", "SELL"} THEN signals[1]
    ELSE "HOLD"

\* decision = "HOLD"; if signals.count("BUY") >= 2 ...; elif signals.count("SELL") >= 2 ...
combine(signals) ==
    IF Count(signals, "BUY") >= 2 THEN "BUY"
    ELSE IF Count(signals, "SELL") >= 2 THEN "SELL"
    ELSE "HOLD"

\* hold_due with the interval test lost: due at every HOLD cycle
hold_due_every_cycle(elapsed) == elapsed >= 0

\* elapsed >= HOLD_ALERT_INTERVAL
hold_due(elapsed) == elapsed >= HOLD_ALERT_INTERVAL

\* hold_block without the else branch that clears hold_start_time
hold_block_never_cleared(hold, decision, jakarta_time) ==
    IF decision = "HOLD" THEN
        IF hold = NoTime THEN [hold |-> jakarta_time, alert |-> FALSE]
        ELSE IF hold_due(jakarta_time - hold)
             THEN [hold |-> jakarta_time, alert |-> TRUE]
             ELSE [hold |-> hold, alert |-> FALSE]
    ELSE [hold |-> hold, alert |-> FALSE]

\* the "HOLD alert" block: new hold_start_time and whether the alert is sent
hold_block(hold, decision, jakarta_time) ==
    IF decision = "HOLD" THEN
        IF hold = NoTime THEN [hold |-> jakarta_time, alert |-> FALSE]
        ELSE IF hold_due(jakarta_time - hold)
             THEN [hold |-> jakarta_time, alert |-> TRUE]
             ELSE [hold |-> hold, alert |-> FALSE]
    ELSE [hold |-> NoTime, alert |-> FALSE]

\* the times of the last two HOLD alerts after this pass
HoldAlertsAfter(sent, h, jakarta_time) ==
    IF h.alert THEN LastN(Append(sent, jakarta_time), 2) ELSE sent

HoldMsgs(h, s) ==
    IF h.alert THEN <<Msg("HoldTimeout", s, 0, "HOLD")>> ELSE <<>>

\* dict with key s set to v
DictPut(d, s, v) == [x \in (DOMAIN d) \cup {s} |-> IF x = s THEN v ELSE d[x]]

\* dict.pop(s, None)
DictPop(d, s) == [x \in (DOMAIN d) \ {s} |-> d[x]]

\* advance of the main loop after the pass over one symbol
LoopAfterSymbol(rest) ==
    /\ todo' = rest
    /\ pc' = IF rest # <<>> THEN "symbols" ELSE "tail"

\* ------------------------------------------------------------------------
\* pro_trader_bot_v2: trade lifecycle
\* ------------------------------------------------------------------------
open_trade(trades, tv_symbol, side, entry_price, sl, tp1, tp2, t) ==
    DictPut(trades, tv_symbol,
            [start_time |-> t, side |-> side, entry_price |-> entry_price,
             sl |-> sl, tp1 |-> tp1, tp2 |-> tp2, status |-> "OPEN"])

\* profit_pct that takes every trade for a BUY
profit_pct_long_only(side, entry, exit_price) ==
    MulFrac(Frac(exit_price - entry, entry), 100)

\* profit_pct of pro_trader_bot_v2.close_trade, in percent
profit_pct(side, entry, exit_price) ==
    IF side = "BUY" THEN MulFrac(Frac(exit_price - entry, entry), 100)
    ELSE MulFrac(Frac(entry - exit_price, entry), 100)

\* the row close_trade writes to trades_log.csv
TradeRow(tv_symbol, trade, exit_price, exit_reason, profit, t) ==
    [sym |-> tv_symbol, side |-> trade.side, entry_price |-> trade.entry_price,
     sl |-> trade.sl, tp1 |-> trade.tp1, tp2 |-> trade.tp2,
     start_time |-> trade.start_time, exit_price |-> exit_price,
     exit_reason |-> exit_reason, profit_pct |-> profit,
     duration |-> t - trade.start_time]

\* close_trade: the trades left, the rows written and the messages sent
close_trade(trades, tv_symbol, exit_price, exit_reason, t) ==
    IF tv_symbol \notin DOMAIN trades
    THEN [trades |-> trades, rows |-> <<>>, msgs |-> <<>>]
    ELSE LET trade == trades[tv_symbol]
             profit == profit_pct(trade.side, trade.entry_price, exit_price)
         IN  [trades |-> DictPop(trades, tv_symbol),
              rows |-> <<TradeRow(tv_symbol, trade, exit_price, exit_reason, profit, t)>>,
              msgs |-> <<Msg("TradeClosed", tv_symbol, exit_price, exit_reason)>>]

NoHit == [reason |-> "NONE", exit_price |-> 0]

\* check_hit that exits at the price of the tick, not at the level
check_hit_at_tick(trade, price) ==
    IF trade.side = "BUY" THEN
        IF price >= trade.tp2 THEN [reason |-> "TP2", exit_price |-> price]
        ELSE IF price >= trade.tp1 THEN [reason |-> "TP1", exit_price |-> price]
        ELSE IF price <= trade.sl THEN [reason |-> "SL", exit_price |-> price]
        ELSE NoHit
    ELSE
        IF price <= trade.tp2 THEN [reason |-> "TP2", exit_price |-> price]
        ELSE IF price <= trade.tp1 THEN [reason |-> "TP1", exit_price |-> price]
        ELSE IF price >= trade.sl THEN [reason |-> "SL", exit_price |-> price]
        ELSE NoHit

\* the "check TP/SL" if / elif chain
check_hit(trade, price) ==
    IF trade.side = "BUY" THEN
        IF price >= trade.tp2 THEN [reason |-> "TP2", exit_price |-> trade.tp2]
        ELSE IF price >= trade.tp1 THEN [reason |-> "TP1", exit_price |-> trade.tp1]
        ELSE IF price <= trade.sl THEN [reason |-> "SL", exit_price |-> trade.sl]
        ELSE NoHit
    ELSE
        IF price <= trade.tp2 THEN [reason |-> "TP2", exit_price |-> trade.tp2]
        ELSE IF price <= trade.tp1 THEN [reason |-> "TP1", exit_price |-> trade.tp1]
        ELSE IF price >= trade.sl THEN [reason |-> "SL", exit_price |-> trade.sl]
        ELSE NoHit

Reached(side, price, level) ==
    \/ side = "BUY" /\ price >= level
    \/ side = "SELL" /\ price <= level

\* partial_targets that marks TP1 as sent without looking at the price
partial_targets_marking_always(flags, tv_symbol, trade, price) ==
    [flags |-> [flags EXCEPT !.tp1_sent = TRUE],
     msgs |-> IF flags.tp1_sent THEN <<>> ELSE <<Msg("TP1", tv_symbol, trade.tp1, "TP1")>>]

\* the partial target alerts of the branch with neither hit nor expiry
partial_targets(flags, tv_symbol, trade, price) ==
    LET s1 == ~flags.tp1_sent /\ Reached(trade.side, price, trade.tp1)
        s2 == ~flags.tp2_sent /\ Reached(trade.side, price, trade.tp2)
    IN  [flags |-> [flags EXCEPT !.tp1_sent = @ \/ s1, !.tp2_sent = @ \/ s2],
         msgs |-> (IF s1 THEN <<Msg("TP1", tv_symbol, trade.tp1, "TP1")>> ELSE <<>>)
                  \o (IF s2 THEN <<Msg("TP2", tv_symbol, trade.tp2, "TP2")>> ELSE <<>>)]

\* "If there's an active trade, evaluate TP/SL hits and expiration"
evaluate_v2(trades, flags, tv_symbol, price, t) ==
    IF tv_symbol \notin DOMAIN trades
    THEN [trades |-> trades, flags |-> flags, rows |-> <<>>, msgs |-> <<>>]
    ELSE
        LET trade == trades[tv_symbol]
            hit == check_hit(trade, price)
        IN  IF hit.reason # "NONE" THEN
                LET c == close_trade(trades, tv_symbol, hit.exit_price, hit.reason, t)
                IN  [trades |-> c.trades, flags |-> flags, rows |-> c.rows, msgs |-> c.msgs]
            ELSE IF t - trade.start_time >= TRADE_EVAL_SECONDS THEN
                LET c == close_trade(trades, tv_symbol, price, "TIME_EXPIRED", t)
                IN  [trades |-> c.trades, flags |-> flags, rows |-> c.rows, msgs |-> c.msgs]
            ELSE
                LET pt == partial_targets(flags, tv_symbol, trade, price)
                IN  [trades |-> trades, flags |-> pt.flags, rows |-> <<>>, msgs |-> pt.msgs]

\* should_open without the "none active" guard
should_open_unguarded(changed, decision, has_trade) ==
    changed /\ decision \in {"BUY", "SELL"}

\* "If signal changed -> open new simulated trade (if BUY/SELL)", and
\* "open trade only if none active for this symbol"
should_open(changed, decision, has_trade) ==
    changed /\ decision \in {"BUY", "SELL"} /\ ~has_trade

\* what the early return of analyze_symbol leaves of the module state
SkipPass(s, rest) ==
    /\ LoopAfterSymbol(rest)
    /\ outbox' = <<>>
    /\ trades_log' = <<>>
    /\ cycle' = [NoCycle EXCEPT !.sym = s, !.prev = last_signals[s],
                                !.had_trade = s \in DOMAIN active_trades, !.at = now]
    /\ UNCHANGED <<variant, tv_symbols, now, last_dashboard, last_signals,
                   hold_start_time, price_history, active_targets, active_trades,
                   hold_alerts, call>>

\* analyze_symbol returns early: "No price for %s"
SkipCycle(s, rest) ==
    /\ SkipPass(s, rest)
    /\ UNCHANGED tasks

\* the body of pro_trader_bot_v2.analyze_symbol for the next symbol of the
\* for loop, given its price and the three get_tv_signal results
PassV2(price, signals) ==
    /\ LET s == Head(todo)
           decision == combine(signals)
           lv == compute_levels(price, decision, DefaultVol)
           jakarta_time == now + JAKARTA_OFFSET
           h == hold_block(hold_start_time[s], decision, jakarta_time)
           changed == last_signals[s] # decision
           opens == should_open(changed, decision, s \in DOMAIN active_trades)
           trades1 == IF opens
                      THEN open_trade(active_trades, s, decision, lv.entry, lv.sl, lv.tp1, lv.tp2, now)
                      ELSE active_trades
           ev == evaluate_v2(trades1, active_targets[s], s, price, now)
       IN  /\ price_history' = [price_history EXCEPT ![s] = deque_append(@, price)]
           /\ hold_start_time' = [hold_start_time EXCEPT ![s] = h.hold]
           /\ hold_alerts' = [hold_alerts EXCEPT ![s] = HoldAlertsAfter(@, h, jakarta_time)]
           /\ last_signals' = [last_signals EXCEPT ![s] = decision]
           /\ active_trades' = ev.trades
           /\ active_targets' = [active_targets EXCEPT ![s] = ev.flags]
           /\ outbox' = HoldMsgs(h, s)
                        \o (IF opens
                            THEN <<Msg("MarketAlert", s, price, decision), Msg("Chart", s, price, decision)>>
                            ELSE <<>>)
                        \o ev.msgs
           /\ trades_log' = ev.rows
           /\ cycle' = [sym |-> s, fetched |-> TRUE, price |-> price,
                        decision |-> decision, prev |-> last_signals[s],
                        had_trade |-> s \in DOMAIN active_trades,
                        opened |-> opens,
                        watched |-> IF s \in DOMAIN trades1 THEN <<trades1[s]>> ELSE <<>>,
                        at |-> now]
           /\ LoopAfterSymbol(Tail(todo))
    /\ UNCHANGED <<variant, tv_symbols, now, last_dashboard, call>>

\* pro_trader_bot_v2.analyze_symbol with a price and the three TradingView votes
AnalyzeV2(price, signals) ==
    /\ variant = "v2"
    /\ pc = "symbols"
    /\ todo # <<>>
    /\ PassV2(price, signals)
    /\ UNCHANGED tasks

\* get_price_data returned None, or no price in the configured currency
AnalyzeNoPrice ==
    /\ variant \in {"v2", "ma", "ai"}
    /\ pc = "symbols"
    /\ todo # <<>>
    /\ SkipCycle(Head(todo), Tail(todo))

\* ------------------------------------------------------------------------
\* trader_bot_futures: ATR levels, trades and monitoring
\* ------------------------------------------------------------------------
RECURSIVE SumSeq(_)
SumSeq(q) == IF q = <<>> THEN 0 ELSE Head(q) + SumSeq(Tail(q))

\* calculate_atr with highs = lows = close = prices: the mean of the last
\* `period` absolute price changes, as the fraction num / den
calculate_atr(prices, period) ==
    IF Len(prices) < period THEN [num |-> 0, den |-> 1]
    ELSE LET tr == [i \in 1..(Len(prices) - 1) |-> Abs(prices[i + 1] - prices[i])]
             used == LastN(tr, period)
         IN  [num |-> SumSeq(used), den |-> Len(used)]

\* trader_bot_futures.compute_levels(price, atr, signal)
compute_levels_fut(price, atr, signal) ==
    LET decimals == IF price >= 100 * Micro THEN 2 ELSE IF price >= Micro THEN 4 ELSE 6
        n == atr.num
        d == atr.den
    IN  IF signal = "BUY" THEN
            [entry |-> RoundTo(price, 1, decimals),
             sl  |-> RoundTo(price * d - n, d, decimals),
             tp1 |-> RoundTo(2 * price * d + 3 * n, 2 * d, decimals),
             tp2 |-> RoundTo(price * d + 3 * n, d, decimals)]
        ELSE IF signal = "SELL" THEN
            [entry |-> RoundTo(price, 1, decimals),
             sl  |-> RoundTo(price * d + n, d, decimals),
             tp1 |-> RoundTo(2 * price * d - 3 * n, 2 * d, decimals),
             tp2 |-> RoundTo(price * d - 3 * n, d, decimals)]
        ELSE
            [entry |-> RoundTo(price, 1, decimals),
             sl  |-> RoundTo(price, 1, decimals),
             tp1 |-> RoundTo(price, 1, decimals),
             tp2 |-> RoundTo(price, 1, decimals)]

\* trader_bot_futures.open_trade: active_trades[tv_symbol] = trade, unguarded
open_trade_fut(trades, tv_symbol, side, entry, sl, tp1, tp2, t) ==
    DictPut(trades, tv_symbol,
            [start_time |-> t, side |-> side, entry_price |-> entry,
             sl |-> sl, tp1 |-> tp1, tp2 |-> tp2, status |-> "OPEN",
             tp1_done |-> FALSE, tp2_done |-> FALSE])

\* profit_pct of trader_bot_futures.close_trade: the price move in percent
\* times LEVERAGE
profit_pct_fut(side, entry, exit_price) ==
    LET move == IF side = "BUY" THEN Frac(exit_price - entry, entry)
                ELSE Frac(entry - exit_price, entry)
    IN  MulFrac(MulFrac(move, 100), LEVERAGE)

\* close_trade_fut without the "if not trade: return": a row is written
\* from defaults when the symbol has no trade
close_trade_fut_unchecked(trades, tv_symbol, exit_price, exit_reason, t) ==
    LET trade == IF tv_symbol \in DOMAIN trades THEN trades[tv_symbol]
                 ELSE [start_time |-> t, side |-> "BUY", entry_price |-> exit_price,
                       sl |-> 0, tp1 |-> 0, tp2 |-> 0]
        profit == profit_pct_fut(trade.side, trade.entry_price, exit_price)
    IN  [trades |-> DictPop(trades, tv_symbol),
         rows |-> <<TradeRow(tv_symbol, trade, exit_price, exit_reason, profit, t)>>]

\* close_trade that empties active_trades instead of popping one symbol
close_trade_fut_clear_all(trades, tv_symbol, exit_price, exit_reason, t) ==
    IF tv_symbol \notin DOMAIN trades
    THEN [trades |-> trades, rows |-> <<>>]
    ELSE LET trade == trades[tv_symbol]
             profit == profit_pct_fut(trade.side, trade.entry_price, exit_price)
         IN  [trades |-> EmptyDict,
              rows |-> <<TradeRow(tv_symbol, trade, exit_price, exit_reason, profit, t)>>]

\* trader_bot_futures.close_trade: writes the row, sends nothing itself
close_trade_fut(trades, tv_symbol, exit_price, exit_reason, t) ==
    IF tv_symbol \notin DOMAIN trades
    THEN [trades |-> trades, rows |-> <<>>]
    ELSE LET trade == trades[tv_symbol]
             profit == profit_pct_fut(trade.side, trade.entry_price, exit_price)
         IN  [trades |-> DictPop(trades, tv_symbol),
              rows |-> <<TradeRow(tv_symbol, trade, exit_price, exit_reason, profit, t)>>]

\* monitoring that moves the stop to break-even once TP1 is hit
monitor_fut_breakeven(trades, tv_symbol, price, t) ==
    IF tv_symbol \notin DOMAIN trades
    THEN [trades |-> trades, rows |-> <<>>, msgs |-> <<>>]
    ELSE
        LET trade == trades[tv_symbol]
            hit1 == ~trade.tp1_done /\ Reached(trade.side, price, trade.tp1)
        IN  [trades |-> IF hit1
                        THEN [trades EXCEPT ![tv_symbol].tp1_done = TRUE,
                                            ![tv_symbol].sl = trade.entry_price]
                        ELSE trades,
             rows |-> <<>>,
             msgs |-> IF hit1 THEN <<Msg("TP1", tv_symbol, trade.tp1, "TP1")>> ELSE <<>>]

\* "Monitor active trades": three independent ifs over the trade fetched
\* at the top of the block
monitor_fut(trades, tv_symbol, price, t) ==
    IF tv_symbol \notin DOMAIN trades
    THEN [trades |-> trades, rows |-> <<>>, msgs |-> <<>>]
    ELSE
        LET trade == trades[tv_symbol]
            side == trade.side
            hit1 == ~trade.tp1_done /\ Reached(side, price, trade.tp1)
            tr1 == IF hit1 THEN [trades EXCEPT ![tv_symbol].tp1_done = TRUE] ELSE trades
            hit2 == ~trade.tp2_done /\ Reached(side, price, trade.tp2)
            c2 == IF hit2
                  THEN close_trade_fut([tr1 EXCEPT ![tv_symbol].tp2_done = TRUE],
                                       tv_symbol, trade.tp2, "TP2", t)
                  ELSE [trades |-> tr1, rows |-> <<>>]
            hit3 == \/ side = "BUY" /\ price <= trade.sl
                    \/ side = "SELL" /\ price >= trade.sl
            c3 == IF hit3 THEN close_trade_fut(c2.trades, tv_symbol, price, "SL", t)
                  ELSE [trades |-> c2.trades, rows |-> <<>>]
        IN  [trades |-> c3.trades,
             rows |-> c2.rows \o c3.rows,
             msgs |-> (IF hit1 THEN <<Msg("TP1", tv_symbol, trade.tp1, "TP1")>> ELSE <<>>)
                      \o (IF hit2 THEN <<Msg("TP2", tv_symbol, trade.tp2, "TP2")>> ELSE <<>>)
                      \o (IF hit3 THEN <<Msg("SL", tv_symbol, trade.sl, "SL")>> ELSE <<>>)]

\* trader_bot_futures.analyze_symbol for any symbol of the gathered tasks
AnalyzeFut(i, price, votes) ==
    /\ variant = "fut"
    /\ pc = "symbols"
    /\ i \in DOMAIN todo
    /\ LET s == todo[i]
           rest == [j \in 1..(Len(todo) - 1) |-> IF j < i THEN todo[j] ELSE todo[j + 1]]
           hist == deque_append(price_history[s], price)
           decision == combine(votes)
           atr == calculate_atr(hist, ATR_PERIOD)
           lv == compute_levels_fut(price, atr, decision)
           changed == last_signals[s] # decision
           opens == changed /\ decision \in {"BUY", "SELL"}
           trades1 == IF opens
                      THEN open_trade_fut(active_trades, s, decision, lv.entry, lv.sl, lv.tp1, lv.tp2, now)
                      ELSE active_trades
           mon == monitor_fut(trades1, s, price, now)
       IN  /\ price_history' = [price_history EXCEPT ![s] = hist]
           /\ last_signals' = [last_signals EXCEPT ![s] = decision]
           /\ active_trades' = mon.trades
           /\ outbox' = mon.msgs \o <<Msg("MarketAlert", s, price, decision)>>
           /\ trades_log' = mon.rows
           /\ cycle' = [sym |-> s, fetched |-> TRUE, price |-> price,
                        decision |-> decision, prev |-> last_signals[s],
                        had_trade |-> s \in DOMAIN active_trades,
                        opened |-> opens,
                        watched |-> IF s \in DOMAIN trades1 THEN <<trades1[s]>> ELSE <<>>,
                        at |-> now]
           /\ LoopAfterSymbol(rest)
    /\ UNCHANGED <<variant, tv_symbols, now, last_dashboard, hold_start_time,
                   active_targets, hold_alerts, call, tasks>>

\* ------------------------------------------------------------------------
\* market_analyzer_full_with_hold: alerts only
\* ------------------------------------------------------------------------
\* get_ta_signal: the RECOMMENDATION of the summary, or, when every retry
\* failed ("FAILED"), the trend of the last two recorded prices
get_ta_signal(ta, prices) ==
    IF ta # "FAILED" THEN ta
    ELSE IF Len(prices) < 2 THEN "HOLD"
    ELSE IF prices[Len(prices)] > prices[Len(prices) - 1] THEN "BUY"
    ELSE IF prices[Len(prices)] < prices[Len(prices) - 1] THEN "SELL"
    ELSE "HOLD"

\* decision from the TA signal and the 24 h change (percent)
decide_ma(ta_signal, change) ==
    IF ta_signal = "BUY" /\ change > 1 THEN "BUY"
    ELSE IF ta_signal = "SELL" /\ change < -1 THEN "SELL"
    ELSE "HOLD"

\* market_analyzer_full_with_hold.compute_levels: always 4 decimals, and
\* the HOLD levels left unrounded
compute_levels_ma(price, signal, volatility) ==
    LET n == volatility.num
        d == volatility.den
    IN  IF signal = "BUY" THEN
            [entry |-> price,
             sl  |-> RoundScaled(price, d - n, d, 4),
             tp1 |-> RoundScaled(price, d + 2 * n, d, 4),
             tp2 |-> RoundScaled(price, d + 4 * n, d, 4)]
        ELSE IF signal = "SELL" THEN
            [entry |-> price,
             sl  |-> RoundScaled(price, d + n, d, 4),
             tp1 |-> RoundScaled(price, d - 2 * n, d, 4),
             tp2 |-> RoundScaled(price, d - 4 * n, d, 4)]
        ELSE [entry |-> price, sl |-> price, tp1 |-> price, tp2 |-> price]

\* the "TP/SL alerts" block: three independent ifs on this pass's levels
target_alerts(flags, tv_symbol, decision, price, lv) ==
    LET a1 == ~flags.tp1_sent /\ ((decision = "BUY" /\ price >= lv.tp1) \/ (decision = "SELL" /\ price <= lv.tp1))
        a2 == ~flags.tp2_sent /\ ((decision = "BUY" /\ price >= lv.tp2) \/ (decision = "SELL" /\ price <= lv.tp2))
        a3 == ~flags.sl_sent /\ ((decision = "BUY" /\ price <= lv.sl) \/ (decision = "SELL" /\ price >= lv.sl))
    IN  [flags |-> [tp1_sent |-> flags.tp1_sent \/ a1,
                    tp2_sent |-> flags.tp2_sent \/ a2,
                    sl_sent |-> flags.sl_sent \/ a3],
         msgs |-> (IF a1 THEN <<Msg("TP1", tv_symbol, price, "TP1")>> ELSE <<>>)
                  \o (IF a2 THEN <<Msg("TP2", tv_symbol, price, "TP2")>> ELSE <<>>)
                  \o (IF a3 THEN <<Msg("SL", tv_symbol, price, "SL")>> ELSE <<>>)]

\* the body of market_analyzer_full_with_hold.analyze_symbol with a price,
\* its 24 h change and the outcome of the TradingView fetch
PassMA(price, change, ta) ==
    /\ variant = "ma"
    /\ pc = "symbols"
    /\ todo # <<>>
    /\ LET s == Head(todo)
           ta_signal == get_ta_signal(ta, price_history[s])
           decision == decide_ma(ta_signal, change)
           lv == compute_levels_ma(price, decision, DefaultVol)
           jakarta_time == now + JAKARTA_OFFSET
           changed == last_signals[s] # decision
           flags1 == IF changed THEN NoFlags ELSE active_targets[s]
           ta_alerts == target_alerts(flags1, s, decision, price, lv)
           h == hold_block(hold_start_time[s], decision, jakarta_time)
       IN  /\ price_history' = [price_history EXCEPT ![s] = deque_append(@, price)]
           /\ active_targets' = [active_targets EXCEPT ![s] = ta_alerts.flags]
           /\ last_signals' = [last_signals EXCEPT ![s] = decision]
           /\ hold_start_time' = [hold_start_time EXCEPT ![s] = h.hold]
           /\ hold_alerts' = [hold_alerts EXCEPT ![s] = HoldAlertsAfter(@, h, jakarta_time)]
           /\ outbox' = (IF changed THEN <<Msg("MarketAlert", s, price, decision)>> ELSE <<>>)
                        \o ta_alerts.msgs
                        \o HoldMsgs(h, s)
           /\ trades_log' = <<>>
           /\ cycle' = [sym |-> s, fetched |-> TRUE, price |-> price,
                        decision |-> decision, prev |-> last_signals[s],
                        had_trade |-> FALSE, opened |-> FALSE, watched |-> <<>>,
                        at |-> now]
           /\ LoopAfterSymbol(Tail(todo))
    /\ UNCHANGED <<variant, tv_symbols, now, last_dashboard, active_trades, tasks>>

\* market_analyzer_full_with_hold.analyze_symbol
AnalyzeMA(price, change, ta) ==
    /\ PassMA(price, change, ta)
    /\ UNCHANGED call

\* ------------------------------------------------------------------------
\* trader_bot_ai: alerts only, TA majority confirmed by the AI model
\* ------------------------------------------------------------------------
\* "Combine TA + AI"; conf_ok stands for ai_conf > 0.55
decide_ai(ta_decision, ai_signal, conf_ok) ==
    IF ai_signal = ta_decision /\ ai_signal # "HOLD" /\ conf_ok THEN ai_signal
    ELSE "HOLD"

\* trader_bot_ai.analyze_symbol
AnalyzeAI(price, votes, ai) ==
    /\ variant = "ai"
    /\ pc = "symbols"
    /\ todo # <<>>
    /\ LET s == Head(todo)
           decision == decide_ai(combine(votes), ai.signal, ai.conf_ok)
           jakarta_time == now + JAKARTA_OFFSET
           h == hold_block(hold_start_time[s], decision, jakarta_time)
           changed == last_signals[s] # decision
       IN  /\ price_history' = [price_history EXCEPT ![s] = deque_append(@, price)]
           /\ hold_start_time' = [hold_start_time EXCEPT ![s] = h.hold]
           /\ hold_alerts' = [hold_alerts EXCEPT ![s] = HoldAlertsAfter(@, h, jakarta_time)]
           /\ last_signals' = [last_signals EXCEPT ![s] = decision]
           /\ outbox' = HoldMsgs(h, s)
                        \o (IF changed
                            THEN <<Msg("MarketAlert", s, price, decision), Msg("Chart", s, price, decision)>>
                            ELSE <<>>)
           /\ trades_log' = <<>>
           /\ cycle' = [sym |-> s, fetched |-> TRUE, price |-> price,
                        decision |-> decision, prev |-> last_signals[s],
                        had_trade |-> FALSE, opened |-> FALSE, watched |-> <<>>,
                        at |-> now]
           /\ LoopAfterSymbol(Tail(todo))
    /\ UNCHANGED <<variant, tv_symbols, now, last_dashboard, active_targets, active_trades, call, tasks>>

\* ------------------------------------------------------------------------
\* Main loop: dashboard timer and sleep
\* ------------------------------------------------------------------------
\* pro_trader_bot_v2.send_dashboard: one summary message
send_dashboard ==
    <<Msg("Dashboard", "-", Cardinality(DOMAIN active_trades), "-")>>

\* a dashboard pass that forgets the trades it has reported
DashboardAndSleepClearing(lag) ==
    /\ variant \in {"v2", "fut"}
    /\ pc = "tail"
    /\ now - last_dashboard >= DASHBOARD_INTERVAL
    /\ now + SLEEP_TIME + lag <= Horizon(variant)
    /\ outbox' = send_dashboard
    /\ active_trades' = EmptyDict
    /\ last_dashboard' = now
    /\ now' = now + SLEEP_TIME + lag
    /\ pc' = "symbols"
    /\ todo' = tv_symbols
    /\ trades_log' = <<>>
    /\ cycle' = NoCycle
    /\ tasks' = NoTasks(tv_symbols)
    /\ UNCHANGED <<variant, tv_symbols, last_signals, hold_start_time,
                   price_history, active_targets, hold_alerts, call>>

\* end of a loop iteration: the dashboard is due; then time.sleep(SLEEP_TIME)
DashboardAndSleep(lag) ==
    /\ variant \in {"v2", "fut"}
    /\ pc = "tail"
    /\ now - last_dashboard >= DASHBOARD_INTERVAL
    /\ now + SLEEP_TIME + lag <= Horizon(variant)
    /\ outbox' = send_dashboard
    /\ last_dashboard' = now
    /\ now' = now + SLEEP_TIME + lag
    /\ pc' = "symbols"
    /\ todo' = tv_symbols
    /\ trades_log' = <<>>
    /\ cycle' = NoCycle
    /\ tasks' = NoTasks(tv_symbols)
    /\ UNCHANGED <<variant, tv_symbols, last_signals, hold_start_time,
                   price_history, active_targets, active_trades, hold_alerts, call>>

\* end of a loop iteration without dashboard: time.sleep(SLEEP_TIME)
Sleep(lag) ==
    /\ pc = "tail"
    /\ variant \in {"v2", "fut"} => now - last_dashboard < DASHBOARD_INTERVAL
    /\ now + SLEEP_TIME + lag <= Horizon(variant)
    /\ now' = now + SLEEP_TIME + lag
    /\ pc' = "symbols"
    /\ todo' = tv_symbols
    /\ outbox' = <<>>
    /\ trades_log' = <<>>
    /\ cycle' = NoCycle
    /\ tasks' = NoTasks(tv_symbols)
    /\ UNCHANGED <<variant, tv_symbols, last_dashboard, last_signals, hold_start_time,
                   price_history, active_targets, active_trades, hold_alerts, call>>

\* the vote triples a pass is run with (1h, 4h, 1d)
VoteInputs ==
    { <<"BUY", "STRONG_BUY", "BUY">>,
      <<"SELL", "SELL", "NEUTRAL">>,
      <<"BUY", "SELL", "HOLD">>,
      <<"NEUTRAL", "BUY", "STRONG_BUY">> }

\* ------------------------------------------------------------------------
\* Specification of pro_trader_bot_v2 with one configured symbol
\* ------------------------------------------------------------------------
InitV2 == InitFor("v2", <<"BTCUSDT">>)

NextV2 ==
    \/ \E price \in Prices, signals \in VoteInputs : AnalyzeV2(price, signals)
    \/ AnalyzeNoPrice
    \/ \E lag \in Lags : DashboardAndSleep(lag)
    \/ \E lag \in Lags : Sleep(lag)

SpecV2 == InitV2 /\ [][NextV2]_vars

\* ------------------------------------------------------------------------
\* Specification of trader_bot_futures with one configured symbol
\* ------------------------------------------------------------------------
InitFut == InitFor("fut", <<"BTCUSDT">>)

NextFut ==
    \/ \E i \in DOMAIN todo, price \in PricesFut, votes \in VoteInputs : AnalyzeFut(i, price, votes)
    \/ \E lag \in Lags : DashboardAndSleep(lag)
    \/ \E lag \in Lags : Sleep(lag)

SpecFut == InitFut /\ [][NextFut]_vars

\* ------------------------------------------------------------------------
\* Specifications of the alert-only bots, and of all four bots
\* ------------------------------------------------------------------------
\* 24 h change in percent
Changes == {-2, 0, 2}

\* outcome of get_ta_signal's fetch: a recommendation, or every retry failed
TaInputs == {"BUY", "SELL", "NEUTRAL", "FAILED"}

\* the AI model's prediction and whether its confidence exceeds 0.55
AiInputs == { [signal |-> "BUY", conf_ok |-> TRUE],
              [signal |-> "SELL", conf_ok |-> TRUE],
              [signal |-> "BUY", conf_ok |-> FALSE],
              [signal |-> "HOLD", conf_ok |-> TRUE] }

InitMA == InitFor("ma", <<"BTCUSDT">>)

InitAI == InitFor("ai", <<"BTCUSDT">>)

NextMA ==
    \/ \E price \in Prices, change \in Changes, ta \in TaInputs : AnalyzeMA(price, change, ta)
    \/ AnalyzeNoPrice
    \/ \E lag \in Lags : Sleep(lag)

NextAI ==
    \/ \E price \in Prices, votes \in VoteInputs, ai \in AiInputs : AnalyzeAI(price, votes, ai)
    \/ AnalyzeNoPrice
    \/ \E lag \in Lags : Sleep(lag)

SpecMA == InitMA /\ [][NextMA]_vars

SpecAI == InitAI /\ [][NextAI]_vars

Init == InitV2 \/ InitFut \/ InitMA \/ InitAI

Next ==
    \/ \E price \in Prices, signals \in VoteInputs : AnalyzeV2(price, signals)
    \/ \E i \in DOMAIN todo, price \in PricesFut, votes \in VoteInputs : AnalyzeFut(i, price, votes)
    \/ \E price \in Prices, change \in Changes, ta \in TaInputs : AnalyzeMA(price, change, ta)
    \/ \E price \in Prices, votes \in VoteInputs, ai \in AiInputs : AnalyzeAI(price, votes, ai)
    \/ AnalyzeNoPrice
    \/ \E lag \in Lags : DashboardAndSleep(lag)
    \/ \E lag \in Lags : Sleep(lag)

Spec == Init /\ [][Next]_vars

\* ------------------------------------------------------------------------
\* Two configured symbols: pending fetches, suspended tasks and exceptions
\* ------------------------------------------------------------------------
PairSymbols == <<"BTCUSDT", "ETHUSDT">>

\* prices fed to the bots with two symbols: 98 and 101.5
PairPrices == {98 * Micro, 203 * (Micro \div 2)}

\* what the three TradingView fetches of a pass end with (1h, 4h, 1d): a
\* recommendation, "FAILED" (every attempt raised) or "EMPTY" (a summary
\* without RECOMMENDATION)
FetchedVotes ==
    { <<"BUY", "BUY", "BUY">>,
      <<"BUY", "FAILED", "FAILED">>,
      <<"SELL", "SELL", "EMPTY">> }

\* what get_tv_signal returns for what its fetch ended with
tv_signal(fetched) ==
    IF fetched \in {"FAILED", "EMPTY"} THEN "HOLD" ELSE fetched

tv_signals(fetched) == [i \in DOMAIN fetched |-> tv_signal(fetched[i])]

Missing(fetched) == \E i \in DOMAIN fetched : fetched[i] \in {"FAILED", "EMPTY"}

Remove(seq, s) == SelectSeq(seq, LAMBDA x : x # s)

\* a step of the pass over symbol s that is not a whole analyze_symbol call
StepOf(s) == [NoCycle EXCEPT !.sym = s, !.prev = last_signals[s],
                             !.had_trade = s \in DOMAIN active_trades, !.at = now]

\* pro_trader_bot_v2.main calls analyze_symbol for the next symbol of the for
\* loop; the call blocks in requests.get, get_analysis and time.sleep
BeginV2(s) ==
    /\ variant = "v2"
    /\ pc = "symbols"
    /\ todo # <<>>
    /\ s = Head(todo)
    /\ tasks[s].pc = "idle"
    /\ tasks' = [tasks EXCEPT ![s].pc = "fetching"]
    /\ outbox' = <<>>
    /\ trades_log' = <<>>
    /\ cycle' = StepOf(s)
    /\ UNCHANGED <<variant, tv_symbols, now, pc, todo, last_dashboard, last_signals,
                   hold_start_time, price_history, active_targets, active_trades,
                   hold_alerts, call>>

\* the fetches of the call return: the rest of analyze_symbol runs
CompleteV2(price, fetched) ==
    /\ variant = "v2"
    /\ pc = "symbols"
    /\ todo # <<>>
    /\ tasks[Head(todo)].pc = "fetching"
    /\ PassV2(price, tv_signals(fetched))
    /\ tasks' = [tasks EXCEPT ![Head(todo)] =
                    [NoTask EXCEPT !.pc = "done", !.price = price,
                                   !.decision = combine(tv_signals(fetched)),
                                   !.missing = Missing(fetched)]]

\* get_price_data returned None: the call returns early
NoPriceV2 ==
    /\ variant = "v2"
    /\ pc = "symbols"
    /\ todo # <<>>
    /\ tasks[Head(todo)].pc = "fetching"
    /\ SkipPass(Head(todo), Tail(todo))
    /\ tasks' = [tasks EXCEPT ![Head(todo)].pc = "done"]

\* statements of pro_trader_bot_v2.analyze_symbol that raise when the disk or
\* the chart library fails: generate_chart and the write to trades_log.csv
FaultPointsV2 == {"chart", "trades_csv"}

\* analyze_symbol raises at statement `at`; main logs the exception and goes
\* on with the next symbol
RaisesV2(price, fetched, at) ==
    /\ variant = "v2"
    /\ pc = "symbols"
    /\ todo # <<>>
    /\ tasks[Head(todo)].pc = "fetching"
    /\ LET s == Head(todo)
           decision == combine(tv_signals(fetched))
           lv == compute_levels(price, decision, DefaultVol)
           jakarta_time == now + JAKARTA_OFFSET
           h == hold_block(hold_start_time[s], decision, jakarta_time)
           changed == last_signals[s] # decision
           opens == should_open(changed, decision, s \in DOMAIN active_trades)
           trades1 == IF opens
                      THEN open_trade(active_trades, s, decision, lv.entry, lv.sl, lv.tp1, lv.tp2, now)
                      ELSE active_trades
           ev == evaluate_v2(trades1, active_targets[s], s, price, now)
       IN  /\ \/ at = "chart" /\ opens
              \/ at = "trades_csv" /\ ev.rows # <<>>
           /\ price_history' = [price_history EXCEPT ![s] = deque_append(@, price)]
           /\ hold_start_time' = [hold_start_time EXCEPT ![s] = h.hold]
           /\ hold_alerts' = [hold_alerts EXCEPT ![s] = HoldAlertsAfter(@, h, jakarta_time)]
           /\ last_signals' = [last_signals EXCEPT ![s] = decision]
           /\ active_trades' = trades1
           /\ outbox' = HoldMsgs(h, s)
                        \o (IF opens /\ at # "chart"
                            THEN <<Msg("MarketAlert", s, price, decision), Msg("Chart", s, price, decision)>>
                            ELSE <<>>)
           /\ trades_log' = <<>>
           /\ cycle' = [StepOf(s) EXCEPT !.fetched = TRUE, !.price = price,
                                         !.decision = decision, !.opened = opens]
           /\ tasks' = [tasks EXCEPT ![s] =
                           [NoTask EXCEPT !.pc = "raised", !.price = price,
                                          !.decision = decision, !.at = at,
                                          !.missing = Missing(fetched)]]
           /\ LoopAfterSymbol(Tail(todo))
    /\ UNCHANGED <<variant, tv_symbols, now, last_dashboard, active_targets, call>>

\* statements of market_analyzer_full_with_hold.analyze_symbol that raise:
\* generate_chart (or the open of its file), and the write to the alert log
FaultPointsMA == {"chart", "alerts_csv"}

\* analyze_symbol raises at statement `at` of the "Send Telegram alert"
\* block; the exception leaves the for loop of main, which prints it and
\* sleeps
RaisesMA(price, change, ta, at) ==
    /\ variant = "ma"
    /\ pc = "symbols"
    /\ todo # <<>>
    /\ LET s == Head(todo)
           ta_signal == get_ta_signal(ta, price_history[s])
           decision == decide_ma(ta_signal, change)
       IN  /\ last_signals[s] # decision
           /\ price_history' = [price_history EXCEPT ![s] = deque_append(@, price)]
           /\ active_targets' = [active_targets EXCEPT ![s] = NoFlags]
           /\ outbox' = IF at = "alerts_csv"
                        THEN <<Msg("MarketAlert", s, price, decision)>>
                        ELSE <<>>
           /\ trades_log' = <<>>
           /\ cycle' = [StepOf(s) EXCEPT !.fetched = TRUE, !.price = price,
                                         !.decision = decision]
           /\ tasks' = [tasks EXCEPT ![s] =
                           [NoTask EXCEPT !.pc = "raised", !.price = price,
                                          !.decision = decision, !.at = at]]
           /\ todo' = <<>>
           /\ pc' = "tail"
    /\ UNCHANGED <<variant, tv_symbols, now, last_dashboard, last_signals,
                   hold_start_time, active_trades, hold_alerts, call>>

\* where a stretch of trader_bot_futures.analyze_symbol that runs without
\* awaiting leaves the trades, the trade dict it holds as `trade`, the rows
\* it wrote, the message of the send_telegram it awaits, and that await
Stretch(trades, obj, rows, msgs, next) ==
    [trades |-> trades, obj |-> obj, rows |-> rows, msgs |-> msgs, pc |-> next]

\* "Send alert": the Market Alert of every pass
send_alert(trades, obj, tv_symbol, price, decision) ==
    Stretch(trades, obj, <<>>, <<Msg("MarketAlert", tv_symbol, price, decision)>>, "alert_sent")

\* the stop-loss if of the monitor block, and what follows it
monitor_sl(trades, obj, tv_symbol, price, decision, t) ==
    IF (obj.side = "BUY" /\ price <= obj.sl) \/ (obj.side = "SELL" /\ price >= obj.sl)
    THEN LET c == close_trade_fut(trades, tv_symbol, price, "SL", t)
         IN  Stretch(c.trades, obj, c.rows, <<Msg("SL", tv_symbol, obj.sl, "SL")>>, "sl_sent")
    ELSE send_alert(trades, obj, tv_symbol, price, decision)

\* the TP2 if of the monitor block, and what follows it
monitor_tp2(trades, obj, tv_symbol, price, decision, t) ==
    IF ~obj.tp2_done /\ Reached(obj.side, price, obj.tp2)
    THEN LET marked == IF tv_symbol \in DOMAIN trades
                       THEN [trades EXCEPT ![tv_symbol].tp2_done = TRUE]
                       ELSE trades
             c == close_trade_fut(marked, tv_symbol, obj.tp2, "TP2", t)
         IN  Stretch(c.trades, [obj EXCEPT !.tp2_done = TRUE], c.rows,
                     <<Msg("TP2", tv_symbol, obj.tp2, "TP2")>>, "tp2_sent")
    ELSE monitor_sl(trades, obj, tv_symbol, price, decision, t)

\* the TP1 if of the monitor block, and what follows it
monitor_tp1(trades, obj, tv_symbol, price, decision, t) ==
    IF ~obj.tp1_done /\ Reached(obj.side, price, obj.tp1)
    THEN Stretch([trades EXCEPT ![tv_symbol].tp1_done = TRUE],
                 [obj EXCEPT !.tp1_done = TRUE], <<>>,
                 <<Msg("TP1", tv_symbol, obj.tp1, "TP1")>>, "tp1_sent")
    ELSE monitor_tp2(trades, obj, tv_symbol, price, decision, t)

\* asyncio.gather starts the task of symbol s: it runs to the await of the
\* price request
FutStart(s) ==
    /\ variant = "fut"
    /\ pc = "symbols"
    /\ s \in SymbolsOf(todo)
    /\ tasks[s].pc = "idle"
    /\ tasks' = [tasks EXCEPT ![s].pc = "price"]
    /\ outbox' = <<>>
    /\ trades_log' = <<>>
    /\ cycle' = StepOf(s)
    /\ UNCHANGED <<variant, tv_symbols, now, pc, todo, last_dashboard, last_signals,
                   hold_start_time, price_history, active_targets, active_trades,
                   hold_alerts, call>>

\* the price request of task s returns: the price is recorded and the three
\* get_tv_signal calls are awaited
FutPrice(s, price) ==
    /\ variant = "fut"
    /\ pc = "symbols"
    /\ s \in SymbolsOf(todo)
    /\ tasks[s].pc = "price"
    /\ price_history' = [price_history EXCEPT ![s] = deque_append(@, price)]
    /\ tasks' = [tasks EXCEPT ![s].pc = "votes", ![s].price = price]
    /\ outbox' = <<>>
    /\ trades_log' = <<>>
    /\ cycle' = StepOf(s)
    /\ UNCHANGED <<variant, tv_symbols, now, pc, todo, last_dashboard, last_signals,
                   hold_start_time, active_targets, active_trades, hold_alerts, call>>

\* the price request of task s raises (connection error, no such coin in the
\* answer): gather passes the exception to main_loop, which does not catch
\* it, and asyncio.run ends
FutPriceRaises(s) ==
    /\ variant = "fut"
    /\ pc = "symbols"
    /\ s \in SymbolsOf(todo)
    /\ tasks[s].pc = "price"
    /\ tasks' = [tasks EXCEPT ![s].pc = "raised", ![s].at = "price"]
    /\ pc' = "dead"
    /\ outbox' = <<>>
    /\ trades_log' = <<>>
    /\ cycle' = StepOf(s)
    /\ UNCHANGED <<variant, tv_symbols, now, todo, last_dashboard, last_signals,
                   hold_start_time, price_history, active_targets, active_trades,
                   hold_alerts, call>>

\* the votes of task s return: decision, levels, open_trade and the monitor
\* block up to its first await
FutVotes(s, fetched) ==
    /\ variant = "fut"
    /\ pc = "symbols"
    /\ s \in SymbolsOf(todo)
    /\ tasks[s].pc = "votes"
    /\ LET price == tasks[s].price
           decision == combine(tv_signals(fetched))
           atr == calculate_atr(price_history[s], ATR_PERIOD)
           lv == compute_levels_fut(price, atr, decision)
           changed == last_signals[s] # decision
           opens == changed /\ decision \in {"BUY", "SELL"}
           trades1 == IF opens
                      THEN open_trade_fut(active_trades, s, decision, lv.entry, lv.sl, lv.tp1, lv.tp2, now)
                      ELSE active_trades
           st == IF s \in DOMAIN trades1
                 THEN monitor_tp1(trades1, trades1[s], s, price, decision, now)
                 ELSE send_alert(trades1, <<>>, s, price, decision)
       IN  /\ last_signals' = [last_signals EXCEPT ![s] = decision]
           /\ active_trades' = st.trades
           /\ outbox' = st.msgs
           /\ trades_log' = st.rows
           /\ cycle' = [StepOf(s) EXCEPT !.fetched = TRUE, !.price = price,
                                         !.decision = decision, !.opened = opens]
           /\ tasks' = [tasks EXCEPT ![s].pc = st.pc, ![s].decision = decision,
                                     ![s].trade = <<st.obj>>,
                                     ![s].missing = Missing(fetched)]
    /\ UNCHANGED <<variant, tv_symbols, now, pc, todo, last_dashboard, hold_start_time,
                   price_history, active_targets, hold_alerts, call>>

\* the send_telegram task s awaits inside the monitor block returns: the
\* block goes on to its next if
FutResume(s) ==
    /\ variant = "fut"
    /\ pc = "symbols"
    /\ s \in SymbolsOf(todo)
    /\ tasks[s].pc \in {"tp1_sent", "tp2_sent", "sl_sent"}
    /\ LET obj == tasks[s].trade[1]
           price == tasks[s].price
           decision == tasks[s].decision
           st == IF tasks[s].pc = "tp1_sent"
                 THEN monitor_tp2(active_trades, obj, s, price, decision, now)
                 ELSE IF tasks[s].pc = "tp2_sent"
                 THEN monitor_sl(active_trades, obj, s, price, decision, now)
                 ELSE send_alert(active_trades, obj, s, price, decision)
       IN  /\ active_trades' = st.trades
           /\ outbox' = st.msgs
           /\ trades_log' = st.rows
           /\ cycle' = [StepOf(s) EXCEPT !.fetched = TRUE, !.price = price,
                                         !.decision = decision]
           /\ tasks' = [tasks EXCEPT ![s].pc = st.pc, ![s].trade = <<st.obj>>]
    /\ UNCHANGED <<variant, tv_symbols, now, pc, todo, last_dashboard, last_signals,
                   hold_start_time, price_history, active_targets, hold_alerts, call>>

\* the send_telegram of the Market Alert returns and task s ends; gather
\* returns once every task has ended
FutReturn(s) ==
    /\ variant = "fut"
    /\ pc = "symbols"
    /\ s \in SymbolsOf(todo)
    /\ tasks[s].pc = "alert_sent"
    /\ tasks' = [tasks EXCEPT ![s].pc = "done"]
    /\ LoopAfterSymbol(Remove(todo, s))
    /\ outbox' = <<>>
    /\ trades_log' = <<>>
    /\ cycle' = StepOf(s)
    /\ UNCHANGED <<variant, tv_symbols, now, last_dashboard, last_signals,
                   hold_start_time, price_history, active_targets, active_trades,
                   hold_alerts, call>>

\* time one pass of the main loop over two symbols takes beyond SLEEP_TIME
PairLags == {240}

\* outcomes of get_ta_signal's fetch with two symbols
PairTa == {"BUY", "SELL"}

InitPair ==
    \/ InitFor("v2", PairSymbols)
    \/ InitFor("fut", PairSymbols)
    \/ InitFor("ma", PairSymbols)

NextPair ==
    \/ \E s \in SymbolsOf(PairSymbols) : BeginV2(s)
    \/ \E price \in PairPrices, fetched \in FetchedVotes : CompleteV2(price, fetched)
    \/ NoPriceV2
    \/ \E price \in PairPrices, fetched \in FetchedVotes, at \in FaultPointsV2 :
          RaisesV2(price, fetched, at)
    \/ \E price \in PairPrices, change \in Changes, ta \in PairTa : AnalyzeMA(price, change, ta)
    \/ \E price \in PairPrices, change \in Changes, ta \in PairTa, at \in FaultPointsMA :
          RaisesMA(price, change, ta, at)
    \/ \E s \in SymbolsOf(PairSymbols) : FutStart(s)
    \/ \E s \in SymbolsOf(PairSymbols), price \in PairPrices : FutPrice(s, price)
    \/ \E s \in SymbolsOf(PairSymbols) : FutPriceRaises(s)
    \/ \E s \in SymbolsOf(PairSymbols), fetched \in FetchedVotes : FutVotes(s, fetched)
    \/ \E s \in SymbolsOf(PairSymbols) : FutResume(s)
    \/ \E s \in SymbolsOf(PairSymbols) : FutReturn(s)
    \/ \E lag \in PairLags : Sleep(lag)

SpecPair == InitPair /\ [][NextPair]_vars

\* ------------------------------------------------------------------------
\* The "Combine" step called on its own with any three recommendations
\* ------------------------------------------------------------------------
\* everything but `call` stays as it is
Untouched ==
    UNCHANGED <<variant, tv_symbols, now, pc, todo, last_dashboard, last_signals,
                hold_start_time, price_history, active_targets, active_trades,
                outbox, trades_log, hold_alerts, cycle, tasks>>

Pending(fn, args) == [fn |-> fn, args |-> args, done |-> FALSE, result |-> <<>>]

InitCombine ==
    /\ Idle("v2", <<"BTCUSDT">>)
    /\ call \in {Pending("combine", signals) : signals \in [1..3 -> Recs]}

CallCombine ==
    /\ call.fn = "combine"
    /\ ~call.done
    /\ call' = [call EXCEPT !.done = TRUE, !.result = combine(call.args)]
    /\ Untouched

NextCombine == CallCombine

SpecCombine == InitCombine /\ [][NextCombine]_vars

\* ------------------------------------------------------------------------
\* The level calculators called on their own
\* ------------------------------------------------------------------------
\* prices of every rounding tier, some with more decimals than the tier keeps:
\* 0.00001, 0.999999, 1.0, 1.23456, 99.9999, 100.0, 100.004, 250.75
LevelPrices ==
    {10, 999999, Micro, 1234560, 99999900, 100 * Micro, 100004000, 250750000}

Sides == {"BUY", "SELL", "HOLD"}

\* volatility 0.005 (the default) and 0.01
Volatilities == {DefaultVol, [num |-> 1, den |-> 100]}

\* ATR values 0.0, 2.0 and 1.5
AtrInputs == {[num |-> 0, den |-> 1], [num |-> 2 * Micro, den |-> 1], [num |-> 3 * Micro, den |-> 2]}

InitLevels ==
    /\ Idle("v2", <<"BTCUSDT">>)
    /\ call \in {Pending("compute_levels", [price |-> p, signal |-> sd, volatility |-> v]) :
                     p \in LevelPrices, sd \in Sides, v \in Volatilities}
               \cup {Pending("compute_levels_fut", [price |-> p, atr |-> a, signal |-> sd]) :
                     p \in LevelPrices, a \in AtrInputs, sd \in Sides}

CallComputeLevels ==
    /\ call.fn = "compute_levels"
    /\ ~call.done
    /\ call' = [call EXCEPT !.done = TRUE,
                            !.result = compute_levels(call.args.price, call.args.signal,
                                                      call.args.volatility)]
    /\ Untouched

CallComputeLevelsFut ==
    /\ call.fn = "compute_levels_fut"
    /\ ~call.done
    /\ call' = [call EXCEPT !.done = TRUE,
                            !.result = compute_levels_fut(call.args.price, call.args.atr,
                                                          call.args.signal)]
    /\ Untouched

NextLevels == CallComputeLevels \/ CallComputeLevelsFut

SpecLevels == InitLevels /\ [][NextLevels]_vars

\* ------------------------------------------------------------------------
\* The TradingView fetchers called on their own, one attempt per step
\* ------------------------------------------------------------------------
\* largest `retries` a fetcher is called with
MaxRetries == 5

\* pro_trader_bot_v3: seconds between requests per symbol
MIN_INTERVAL == 60

\* pro_trader_bot_v2.get_tv_signal, pro_trader_bot_v3.get_tv_analysis and
\* signal_3.get_analysis_safe
Fetchers == {"get_tv_signal", "get_tv_analysis", "get_analysis_safe"}

\* what one handler.get_analysis() ends with: an analysis with or without a
\* RECOMMENDATION, a "429 Too Many Requests" error, any other exception
Outcomes == {"OK", "EMPTY", "429", "ERROR"}

\* what get_tv_analysis sleeps before a fetch to keep MIN_INTERVAL
Cooldowns == {0, MIN_INTERVAL}

\* backoff = 1.0, 30 * 2 ** (attempt - 1) for attempt = 1, wait_time = 5
first_wait(fn) ==
    IF fn = "get_tv_signal" THEN 1
    ELSE IF fn = "get_tv_analysis" THEN 30
    ELSE 5

\* the call at its entry: attempt counts the fetches that raised, wait is
\* the next backoff and slept the seconds slept so far
Fetching(fn, retries) ==
    [fn |-> fn, args |-> [retries |-> retries], done |-> FALSE, result |-> <<>>,
     attempt |-> 0, wait |-> first_wait(fn), slept |-> 0]

\* a retry loop that makes one attempt more than `retries`
retry_allowed_once_more(attempt, retries) == attempt <= retries

\* "while attempt < retries", "for attempt in range(retries)"
retry_allowed(attempt, retries) == attempt < retries

\* return result, after a last pause
Returned(c, pause, result) ==
    [c EXCEPT !.done = TRUE, !.result = result, !.slept = @ + pause]

\* the except branch: sleep, then the next iteration of the loop
Failed(c, pause, next_wait) ==
    [c EXCEPT !.attempt = @ + 1, !.slept = @ + pause, !.wait = next_wait]

\* one iteration of the while loop of pro_trader_bot_v2.get_tv_signal
TvSignalAttempt(outcome) ==
    /\ call.fn = "get_tv_signal"
    /\ ~call.done
    /\ retry_allowed(call.attempt, call.args.retries)
    /\ call' = IF outcome = "OK" THEN Returned(call, 0, "BUY")
               ELSE IF outcome = "EMPTY" THEN Returned(call, 0, "HOLD")
               ELSE Failed(call, call.wait, 2 * call.wait)
    /\ Untouched

\* one iteration of the for loop of pro_trader_bot_v3.get_tv_analysis
TvAnalysisAttempt(outcome, cooldown) ==
    /\ call.fn = "get_tv_analysis"
    /\ ~call.done
    /\ retry_allowed(call.attempt, call.args.retries)
    /\ call' = IF outcome \in {"OK", "EMPTY"} THEN Returned(call, cooldown, "analysis")
               ELSE IF outcome = "429" THEN Failed(call, cooldown + call.wait, 2 * call.wait)
               ELSE Failed(call, cooldown + 5, 2 * call.wait)
    /\ Untouched

\* one iteration of the for loop of signal_3.get_analysis_safe
AnalysisSafeAttempt(outcome) ==
    /\ call.fn = "get_analysis_safe"
    /\ ~call.done
    /\ retry_allowed(call.attempt, call.args.retries)
    /\ call' = IF outcome \in {"OK", "EMPTY"} THEN Returned(call, 0, "analysis")
               ELSE IF outcome = "429" THEN Failed(call, call.wait, 2 * call.wait)
               ELSE Returned(call, 0, "None")
    /\ Untouched

\* the loop is left without a result: return "HOLD", return None
FetchGivesUp ==
    /\ call.fn \in Fetchers
    /\ ~call.done
    /\ ~retry_allowed(call.attempt, call.args.retries)
    /\ call' = Returned(call, 0, IF call.fn = "get_tv_signal" THEN "HOLD" ELSE "None")
    /\ Untouched

InitFetch ==
    /\ Idle("v2", <<"BTCUSDT">>)
    /\ call \in {Fetching(fn, retries) : fn \in Fetchers, retries \in 1..MaxRetries}

NextFetch ==
    \/ \E outcome \in Outcomes : TvSignalAttempt(outcome)
    \/ \E outcome \in Outcomes, cooldown \in Cooldowns : TvAnalysisAttempt(outcome, cooldown)
    \/ \E outcome \in Outcomes : AnalysisSafeAttempt(outcome)
    \/ FetchGivesUp

\* a fetcher that was called keeps running: every get_analysis and every
\* sleep returns
SpecFetch == InitFetch /\ [][NextFetch]_vars /\ WF_vars(NextFetch)

\* ------------------------------------------------------------------------
\* trader_bot_ai with the exceptions of its alert block
\* ------------------------------------------------------------------------
\* statements of the "Alert if changed" block of trader_bot_ai.analyze_symbol
\* that raise: generate_chart, and the open of the chart file in
\* send_telegram_image
FaultPointsAI == {"chart", "image"}

\* analyze_symbol raises at statement `at` of the "Alert if changed" block:
\* the HOLD block above it has run, last_signals is not assigned; main
\* catches the exception and goes on with the next symbol
RaisesAI(price, votes, ai, at) ==
    /\ variant = "ai"
    /\ pc = "symbols"
    /\ todo # <<>>
    /\ LET s == Head(todo)
           decision == decide_ai(combine(votes), ai.signal, ai.conf_ok)
           jakarta_time == now + JAKARTA_OFFSET
           h == hold_block(hold_start_time[s], decision, jakarta_time)
       IN  /\ last_signals[s] # decision
           /\ price_history' = [price_history EXCEPT ![s] = deque_append(@, price)]
           /\ hold_start_time' = [hold_start_time EXCEPT ![s] = h.hold]
           /\ hold_alerts' = [hold_alerts EXCEPT ![s] = HoldAlertsAfter(@, h, jakarta_time)]
           /\ outbox' = HoldMsgs(h, s)
                        \o (IF at = "image"
                            THEN <<Msg("MarketAlert", s, price, decision)>>
                            ELSE <<>>)
           /\ trades_log' = <<>>
           /\ cycle' = [sym |-> s, fetched |-> TRUE, price |-> price,
                        decision |-> decision, prev |-> last_signals[s],
                        had_trade |-> FALSE, opened |-> FALSE, watched |-> <<>>,
                        at |-> now]
           /\ LoopAfterSymbol(Tail(todo))
    /\ UNCHANGED <<variant, tv_symbols, now, last_dashboard, last_signals,
                   active_targets, active_trades, call, tasks>>

NextAIFaults ==
    \/ NextAI
    \/ \E price \in Prices, votes \in VoteInputs, ai \in AiInputs, at \in FaultPointsAI :
           RaisesAI(price, votes, ai, at)

SpecAIFaults == InitAI /\ [][NextAIFaults]_vars

\* ------------------------------------------------------------------------
\* market_analyzer_full_with_hold with the levels of its last Market Alert
\* ------------------------------------------------------------------------
\* the "Levels" part of the Market Alert text: decision, Entry, Stop Loss,
\* TP1 and TP2 as the pass that sends the alert computed them
Announced(tv_symbol, decision, lv) ==
    [fn |-> "Market Alert", args |-> <<tv_symbol, decision>>, done |-> TRUE, result |-> lv]

\* analyze_symbol, with the levels of the alert it sends kept
AnnounceMA(price, change, ta) ==
    /\ PassMA(price, change, ta)
    /\ LET s == Head(todo)
           decision == decide_ma(get_ta_signal(ta, price_history[s]), change)
       IN  call' = IF last_signals[s] # decision
                   THEN Announced(s, decision, compute_levels_ma(price, decision, DefaultVol))
                   ELSE call

\* prices on both sides of the levels announced at 98 and at 100
AnnouncePrices == {98 * Micro, 100 * Micro, 203 * (Micro \div 2)}

NextMALevels ==
    \/ \E price \in AnnouncePrices, change \in Changes, ta \in PairTa : AnnounceMA(price, change, ta)
    \/ AnalyzeNoPrice
    \/ \E lag \in Lags : Sleep(lag)

SpecMALevels == InitMA /\ [][NextMALevels]_vars

\* ------------------------------------------------------------------------
\* trading_signal_bot: LONG / SHORT signals from the TradingView summary
\* ------------------------------------------------------------------------
\* In the signal bots last_signals[symbol] is the stored signal dict,
\* trades_log the lines appended to signals_log.jsonl by the last step,
\* last_dashboard is last_summary_time, and tasks[symbol] is the last
\* send_signal_to_telegram call made for the symbol.

\* last_signals.get(symbol) of a symbol without an entry
NoSignal ==
    [signal |-> "None", entry |-> 0, sl |-> 0, tp |-> 0, time |-> NoTime, indicators |-> <<>>]

\* read_symbols_config without a config file: sl_percent 0.5, reward_ratio 2
DefaultConfig == [sl_percent |-> [num |-> 1, den |-> 2], reward_ratio |-> 2]

\* format_price(price * num / den): 2 decimals from 1.0 on, else 5
format_price(price, num, den) ==
    LET floor == (price \div den) * num + ((price % den) * num) \div den
    IN  IF floor >= Micro THEN RoundScaled(price, num, den, 2)
        ELSE RoundScaled(price, num, den, 5)

\* the entry, sl and tp of a signal dict; sl = close * (1 -+ sl_percent / 100),
\* tp = close +- (close - sl) * reward_ratio
signal_dict(signal, close_price, config, time, indicators) ==
    LET n == config.sl_percent.num
        d == 100 * config.sl_percent.den
        r == config.reward_ratio
    IN  [signal |-> signal,
         entry |-> format_price(close_price, 1, 1),
         sl |-> IF signal = "LONG" THEN format_price(close_price, d - n, d)
                ELSE format_price(close_price, d + n, d),
         tp |-> IF signal = "LONG" THEN format_price(close_price, d + r * n, d)
                ELSE format_price(close_price, d - r * n, d),
         time |-> time,
         indicators |-> indicators]

\* trading_signal_bot.generate_signal_tv_json: the list of signals
generate_signal_tv_json(recommendation, close_price, config, current_time) ==
    LET indicators == [close |-> close_price]
    IN  IF recommendation = "BUY"
        THEN <<signal_dict("LONG", close_price, config, current_time, indicators)>>
        ELSE IF recommendation = "SELL"
        THEN <<signal_dict("SHORT", close_price, config, current_time, indicators)>>
        ELSE <<>>

\* what a pass of a signal bot was given and did: the signal it generated and
\* its direction, the stored signal before it, the direction of the last send
\* of the symbol, and the numbers of messages sent, lines logged and daily
\* counters incremented
SignalCycle(s, sig, stored, sent, logged, counted) ==
    [sym |-> s, fetched |-> TRUE, read |-> sig, decision |-> sig.signal, prev |-> stored,
     prev_sent |-> tasks[s].decision, sent |-> sent, logged |-> logged,
     counted |-> counted, at |-> now]

\* the send_signal_to_telegram call for a signal
SendCall(sig) == [NoTask EXCEPT !.pc = "sent", !.decision = sig.signal, !.price = sig.entry]

IdleSignals(v, tv) ==
    /\ variant = v
    /\ tv_symbols = tv
    /\ now = 0
    /\ pc = "symbols"
    /\ todo = tv
    /\ last_dashboard = 0
    /\ tasks = NoTasks(tv)
    /\ last_signals = [s \in SymbolsOf(tv) |-> NoSignal]
    /\ hold_start_time = [s \in SymbolsOf(tv) |-> NoTime]
    /\ price_history = [s \in SymbolsOf(tv) |-> <<>>]
    /\ active_targets = [s \in SymbolsOf(tv) |-> NoFlags]
    /\ active_trades = EmptyDict
    /\ outbox = <<>>
    /\ trades_log = <<>>
    /\ hold_alerts = [s \in SymbolsOf(tv) |-> <<>>]
    /\ cycle = NoCycle
    /\ call = NoCall

\* one symbol of the for loop of trading_signal_bot.main, get_analysis
\* having returned
PollSymbol(recommendation, close_price) ==
    /\ variant = "tsb"
    /\ pc = "symbols"
    /\ todo # <<>>
    /\ LET s == Head(todo)
           signals == generate_signal_tv_json(recommendation, close_price, DefaultConfig, now)
           current_signal_key == IF signals # <<>> THEN signals[1].signal ELSE "None"
           last_signal_key == last_signals[s].signal
           new == current_signal_key # "None" /\ current_signal_key # last_signal_key
       IN  /\ outbox' = IF new THEN <<Msg("Signal", s, signals[1].entry, current_signal_key)>>
                        ELSE <<>>
           /\ trades_log' = IF new THEN signals ELSE <<>>
           /\ last_signals' = IF new THEN [last_signals EXCEPT ![s] = signals[1]]
                              ELSE last_signals
           /\ tasks' = IF new THEN [tasks EXCEPT ![s] = SendCall(signals[1])] ELSE tasks
           /\ cycle' = SignalCycle(s, IF signals # <<>> THEN signals[1] ELSE NoSignal,
                                   last_signals[s],
                                   IF new THEN 1 ELSE 0, IF new THEN 1 ELSE 0,
                                   IF new THEN 1 ELSE 0)
           /\ LoopAfterSymbol(Tail(todo))
    /\ UNCHANGED <<variant, tv_symbols, now, last_dashboard, hold_start_time,
                   price_history, active_targets, active_trades, hold_alerts, call>>

\* handler.get_analysis raises: the except clause reports the error
PollSymbolNoAnalysis ==
    /\ variant = "tsb"
    /\ pc = "symbols"
    /\ todo # <<>>
    /\ outbox' = <<Msg("Error", Head(todo), 0, "get_analysis")>>
    /\ trades_log' = <<>>
    /\ cycle' = [NoCycle EXCEPT !.sym = Head(todo), !.at = now]
    /\ LoopAfterSymbol(Tail(todo))
    /\ UNCHANGED <<variant, tv_symbols, now, last_dashboard, last_signals, hold_start_time,
                   price_history, active_targets, active_trades, hold_alerts, call, tasks>>

\* the open of signals_log.jsonl in log_signals_to_file raises: the signal
\* has been sent, last_signals is not assigned, the except clause reports
PollSymbolLogRaises(recommendation, close_price) ==
    /\ variant = "tsb"
    /\ pc = "symbols"
    /\ todo # <<>>
    /\ LET s == Head(todo)
           signals == generate_signal_tv_json(recommendation, close_price, DefaultConfig, now)
           current_signal_key == IF signals # <<>> THEN signals[1].signal ELSE "None"
       IN  /\ current_signal_key # "None"
           /\ current_signal_key # last_signals[s].signal
           /\ outbox' = <<Msg("Signal", s, signals[1].entry, current_signal_key),
                          Msg("Error", s, 0, "log_signals_to_file")>>
           /\ trades_log' = <<>>
           /\ tasks' = [tasks EXCEPT ![s] = SendCall(signals[1])]
           /\ cycle' = SignalCycle(s, signals[1], last_signals[s], 1, 0, 0)
           /\ LoopAfterSymbol(Tail(todo))
    /\ UNCHANGED <<variant, tv_symbols, now, last_dashboard, last_signals, hold_start_time,
                   price_history, active_targets, active_trades, hold_alerts, call>>

\* the end of the while body: the daily summary when 24 hours have passed,
\* then time.sleep(POLL_INTERVAL)
PollSleep ==
    /\ variant = "tsb"
    /\ pc = "tail"
    /\ now + POLL_INTERVAL <= MaxTimePoll
    /\ LET due == now - last_dashboard >= SUMMARY_HOURS * 3600
       IN  /\ outbox' = IF due THEN <<Msg("DailySummary", "-", 0, "-")>> ELSE <<>>
           /\ last_dashboard' = IF due THEN now ELSE last_dashboard
    /\ now' = now + POLL_INTERVAL
    /\ pc' = "symbols"
    /\ todo' = tv_symbols
    /\ trades_log' = <<>>
    /\ cycle' = NoCycle
    /\ UNCHANGED <<variant, tv_symbols, last_signals, hold_start_time, price_history,
                   active_targets, active_trades, hold_alerts, call, tasks>>

\* what get_analysis returns: the summary's recommendation and the close
PollRecs == {"BUY", "SELL", "NEUTRAL"}

PollCloses == {98 * Micro, 100 * Micro}

InitPoll == IdleSignals("tsb", <<"ETHUSDT", "BTCUSDT">>)

\* the runs of trading_signal_bot in which every I/O call returns
NextPoll ==
    \/ \E r \in PollRecs, c \in PollCloses : PollSymbol(r, c)
    \/ PollSymbolNoAnalysis
    \/ PollSleep

\* and those in which the log file cannot be opened
NextPollFaults ==
    \/ NextPoll
    \/ \E r \in PollRecs, c \in PollCloses : PollSymbolLogRaises(r, c)

SpecPoll == InitPoll /\ [][NextPoll]_vars

SpecPollFaults == InitPoll /\ [][NextPollFaults]_vars

\* ------------------------------------------------------------------------
\* test.py (and phearin_bot, signal_bot): one scan of the symbols per hour
\* ------------------------------------------------------------------------
\* test.candlestick_signal
candlestick_signal(indicators) ==
    IF indicators.close > indicators.open THEN "BUY"
    ELSE IF indicators.close < indicators.open THEN "SELL"
    ELSE "NEUTRAL"

\* test.generate_signal: the signal dict, with "time" read from the clock,
\* or NoSignal for None
generate_signal(indicators, config, clock) ==
    LET signal_type == candlestick_signal(indicators)
    IN  IF signal_type = "NEUTRAL" THEN NoSignal
        ELSE signal_dict(IF signal_type = "BUY" THEN "LONG" ELSE "SHORT",
                         indicators.close, config, clock, indicators)

\* one symbol of the for loop of test.main, get_analysis having returned
ScanSymbol(indicators) ==
    /\ variant = "hourly"
    /\ pc = "symbols"
    /\ todo # <<>>
    /\ LET s == Head(todo)
           signal == generate_signal(indicators, DefaultConfig, now)
           new == signal # NoSignal /\ signal # last_signals[s]
       IN  /\ outbox' = IF new THEN <<Msg("Signal", s, signal.entry, signal.signal)>> ELSE <<>>
           /\ trades_log' = IF new THEN <<signal>> ELSE <<>>
           /\ last_signals' = IF new THEN [last_signals EXCEPT ![s] = signal] ELSE last_signals
           /\ tasks' = IF new THEN [tasks EXCEPT ![s] = SendCall(signal)] ELSE tasks
           /\ cycle' = SignalCycle(s, signal, last_signals[s],
                                   IF new THEN 1 ELSE 0, IF new THEN 1 ELSE 0,
                                   IF new THEN 1 ELSE 0)
           /\ LoopAfterSymbol(Tail(todo))
    /\ UNCHANGED <<variant, tv_symbols, now, last_dashboard, hold_start_time,
                   price_history, active_targets, active_trades, hold_alerts, call>>

\* handler.get_analysis raises: the except clause prints the error
ScanSymbolNoAnalysis ==
    /\ variant = "hourly"
    /\ pc = "symbols"
    /\ todo # <<>>
    /\ outbox' = <<>>
    /\ trades_log' = <<>>
    /\ cycle' = [NoCycle EXCEPT !.sym = Head(todo), !.at = now]
    /\ LoopAfterSymbol(Tail(todo))
    /\ UNCHANGED <<variant, tv_symbols, now, last_dashboard, last_signals, hold_start_time,
                   price_history, active_targets, active_trades, hold_alerts, call, tasks>>

\* the end of the while body: the daily summary in the first minute of the
\* day, then the sleep until the next full hour
ScanSleep ==
    /\ variant = "hourly"
    /\ pc = "tail"
    /\ LET midnight == (now % (24 * HOUR)) \div 60 = 0
           next_hour == (now \div HOUR) * HOUR + HOUR
       IN  /\ next_hour <= MaxTimeScan
           /\ outbox' = IF midnight THEN <<Msg("DailySummary", "-", 0, "-")>> ELSE <<>>
           /\ now' = next_hour
    /\ pc' = "symbols"
    /\ todo' = tv_symbols
    /\ trades_log' = <<>>
    /\ cycle' = NoCycle
    /\ UNCHANGED <<variant, tv_symbols, last_dashboard, last_signals, hold_start_time,
                   price_history, active_targets, active_trades, hold_alerts, call, tasks>>

\* the candles get_analysis returns: rising, falling and flat, at two closes
ScanCandles ==
    { [close |-> 100 * Micro, open |-> 98 * Micro],
      [close |-> 98 * Micro, open |-> 100 * Micro],
      [close |-> 98 * Micro, open |-> 98 * Micro],
      [close |-> 100 * Micro, open |-> 203 * (Micro \div 2)] }

InitScan == IdleSignals("hourly", <<"ETHUSDT", "BTCUSDT">>)

NextScan ==
    \/ \E indicators \in ScanCandles : ScanSymbol(indicators)
    \/ ScanSymbolNoAnalysis
    \/ ScanSleep

SpecScan == InitScan /\ [][NextScan]_vars

\* ------------------------------------------------------------------------
\* pro_trader_bot_v3: signal-change alerts and open_positions
\* ------------------------------------------------------------------------
\* In pro_trader_bot_v3 last_signals is last_signal, active_trades is
\* open_positions and last_dashboard is last_summary_time.

\* pro_trader_bot_v3.compute_levels, with VOLATILITY = 0.005
compute_levels_v3(price, signal) ==
    LET n == DefaultVol.num
        d == DefaultVol.den
    IN  IF signal \in {"BUY", "STRONG_BUY"} THEN
            [sl  |-> RoundScaled(price, d - n, d, 4),
             tp1 |-> RoundScaled(price, d + 2 * n, d, 4),
             tp2 |-> RoundScaled(price, d + 4 * n, d, 4)]
        ELSE IF signal \in {"SELL", "STRONG_SELL"} THEN
            [sl  |-> RoundScaled(price, d + n, d, 4),
             tp1 |-> RoundScaled(price, d - 2 * n, d, 4),
             tp2 |-> RoundScaled(price, d - 4 * n, d, 4)]
        ELSE [sl |-> price, tp1 |-> price, tp2 |-> price]

\* the dict stored in open_positions[symbol]
Position(close_price, current_signal, clock) ==
    LET lv == compute_levels_v3(close_price, current_signal)
    IN  [entry |-> close_price,
         side |-> IF current_signal \in {"BUY", "STRONG_BUY"} THEN "BUY" ELSE "SELL",
         time |-> clock,
         sl |-> lv.sl, tp1 |-> lv.tp1, tp2 |-> lv.tp2,
         tp1_sent |-> FALSE, tp2_sent |-> FALSE, sl_sent |-> FALSE]

\* d[k] = v of a Python dict
DictSet(d, k, v) == [x \in DOMAIN d \cup {k} |-> IF x = k THEN v ELSE d[x]]

\* one symbol of the for loop of the main loop, get_tv_analysis having
\* returned an analysis, and the sleep that follows it
RoundSymbol(current_signal, close_price, nap) ==
    /\ variant = "v3"
    /\ pc = "symbols"
    /\ todo # <<>>
    /\ now + nap <= MaxTimeV3
    /\ LET symbol == Head(todo)
           changed == last_signals[symbol] # current_signal
           opens == changed /\ current_signal \in {"BUY", "STRONG_BUY", "SELL", "STRONG_SELL"}
       IN  /\ last_signals' = [last_signals EXCEPT ![symbol] = current_signal]
           /\ outbox' = IF changed
                        THEN <<Msg("SignalChange", symbol, close_price, current_signal)>>
                        ELSE <<>>
           /\ active_trades' = IF opens
                               THEN DictSet(active_trades, symbol,
                                            Position(close_price, current_signal, now))
                               ELSE active_trades
           /\ cycle' = [NoCycle EXCEPT !.sym = symbol, !.fetched = TRUE,
                                       !.price = close_price, !.decision = current_signal,
                                       !.prev = last_signals[symbol],
                                       !.had_trade = symbol \in DOMAIN active_trades,
                                       !.opened = opens, !.at = now]
           /\ LoopAfterSymbol(Tail(todo))
    /\ now' = now + nap
    /\ trades_log' = <<>>
    /\ UNCHANGED <<variant, tv_symbols, last_dashboard, hold_start_time, price_history,
                   active_targets, hold_alerts, call, tasks>>

\* get_tv_analysis returned None: continue, without the sleep
RoundSymbolNoAnalysis ==
    /\ variant = "v3"
    /\ pc = "symbols"
    /\ todo # <<>>
    /\ outbox' = <<>>
    /\ trades_log' = <<>>
    /\ cycle' = [NoCycle EXCEPT !.sym = Head(todo), !.at = now]
    /\ LoopAfterSymbol(Tail(todo))
    /\ UNCHANGED <<variant, tv_symbols, now, last_dashboard, last_signals, hold_start_time,
                   price_history, active_targets, active_trades, hold_alerts, call, tasks>>

\* pro_trader_bot_v3.send_summary: nothing without open positions
send_summary ==
    IF DOMAIN active_trades = {} THEN <<>>
    ELSE <<Msg("Summary", "-", Cardinality(DOMAIN active_trades), "-")>>

\* the end of a round: the summary when SUMMARY_INTERVAL has passed, then
\* the sleep before the next round
RoundTail(nap) ==
    /\ variant = "v3"
    /\ pc = "tail"
    /\ now + nap <= MaxTimeV3
    /\ LET due == now - last_dashboard >= SUMMARY_INTERVAL
       IN  /\ outbox' = IF due THEN send_summary ELSE <<>>
           /\ last_dashboard' = IF due THEN now ELSE last_dashboard
    /\ now' = now + nap
    /\ pc' = "symbols"
    /\ todo' = tv_symbols
    /\ trades_log' = <<>>
    /\ cycle' = NoCycle
    /\ UNCHANGED <<variant, tv_symbols, last_signals, hold_start_time, price_history,
                   active_targets, active_trades, hold_alerts, call, tasks>>

\* RECOMMENDATION values of the summary
RoundSignals == {"BUY", "STRONG_SELL", "NEUTRAL"}

RoundCloses == {98 * Micro, 203 * (Micro \div 2)}

\* random.uniform(15, 60) after a symbol, random.uniform(30, 60) after a round
SymbolNaps == {15, 60}

RoundNaps == {30, 60}

\* last_signal = {}, open_positions = {}, and last_summary_time = 0, which
\* lies more than SUMMARY_INTERVAL before the start
InitV3 ==
    /\ variant = "v3"
    /\ tv_symbols = <<"BTCUSDT">>
    /\ now = 0
    /\ pc = "symbols"
    /\ todo = tv_symbols
    /\ last_dashboard = -SUMMARY_INTERVAL
    /\ tasks = NoTasks(tv_symbols)
    /\ last_signals = [s \in SymbolsOf(tv_symbols) |-> "None"]
    /\ hold_start_time = [s \in SymbolsOf(tv_symbols) |-> NoTime]
    /\ price_history = [s \in SymbolsOf(tv_symbols) |-> <<>>]
    /\ active_targets = [s \in SymbolsOf(tv_symbols) |-> NoFlags]
    /\ active_trades = EmptyDict
    /\ outbox = <<>>
    /\ trades_log = <<>>
    /\ hold_alerts = [s \in SymbolsOf(tv_symbols) |-> <<>>]
    /\ cycle = NoCycle
    /\ call = NoCall

NextV3 ==
    \/ \E sig \in RoundSignals, c \in RoundCloses, nap \in SymbolNaps : RoundSymbol(sig, c, nap)
    \/ RoundSymbolNoAnalysis
    \/ \E nap \in RoundNaps : RoundTail(nap)

SpecV3 == InitV3 /\ [][NextV3]_vars

\* ------------------------------------------------------------------------
\* Claims
\* ------------------------------------------------------------------------
TradeFields(tr) == <<tr.side, tr.entry_price, tr.sl, tr.tp1, tr.tp2, tr.start_time>>

KindCount(msgs, kind) == Cardinality({i \in DOMAIN msgs : msgs[i].kind = kind})

\* a stop-loss notification: "hit Stop Loss" (futures) or Trade Closed / SL (v2)
SLNotice(m) == m.kind = "SL" \/ (m.kind = "TradeClosed" /\ m.reason = "SL")

SLReached(tr, price) ==
    \/ tr.side = "BUY" /\ price <= tr.sl
    \/ tr.side = "SELL" /\ price >= tr.sl

InTP1Band(tr, price) ==
    \/ tr.side = "BUY" /\ tr.tp1 <= price /\ price < tr.tp2
    \/ tr.side = "SELL" /\ tr.tp2 < price /\ price <= tr.tp1

Ordered(tr) ==
    IF tr.side = "BUY"
    THEN tr.sl < tr.entry_price /\ tr.entry_price < tr.tp1 /\ tr.tp1 < tr.tp2
    ELSE tr.sl > tr.entry_price /\ tr.entry_price > tr.tp1 /\ tr.tp1 > tr.tp2

\* the last step was an analyze_symbol pass that got a price
Passed == cycle.fetched

\* C1: an open request for a symbol that already has an active trade leaves
\* that trade's side, entry, sl, tp1, tp2 and open time as they were; the
\* only way the trade can go in that pass is by its own close.
C1_OpenNeverOverwrites ==
    [][\A s \in DOMAIN active_trades :
         (/\ cycle'.sym = s
          /\ cycle'.fetched
          /\ cycle'.prev # cycle'.decision
          /\ cycle'.decision \in {"BUY", "SELL"})
         => /\ s \in DOMAIN active_trades'
               => TradeFields(active_trades'[s]) = TradeFields(active_trades[s])
            /\ \A i \in DOMAIN trades_log' :
                 /\ trades_log'[i].start_time = active_trades[s].start_time
                 /\ trades_log'[i].side = active_trades[s].side
                 /\ trades_log'[i].entry_price = active_trades[s].entry_price]_vars

\* the TP1 flag of the symbol's trade before / after the pass
TP1FlagBefore(s) ==
    IF variant = "fut" THEN cycle'.watched[1].tp1_done ELSE active_targets[s].tp1_sent

TP1FlagAfter(s) ==
    IF variant = "fut" THEN active_trades'[s].tp1_done ELSE active_targets'[s].tp1_sent

\* C2: a price that reaches TP1 but not TP2 marks the TP1 flag, sends the
\* TP1 notice (the first time) and leaves the trade open; no trade is ever
\* closed with reason TP1.
C2_TP1OnlyInforms ==
    [][/\ \A i \in DOMAIN trades_log' :
            trades_log'[i].exit_reason \in {"TP2", "SL", "TIME_EXPIRED"}
       /\ (cycle'.watched # <<>> /\ InTP1Band(cycle'.watched[1], cycle'.price))
          => /\ cycle'.sym \in DOMAIN active_trades'
             /\ TP1FlagAfter(cycle'.sym)
             /\ ~TP1FlagBefore(cycle'.sym) => KindCount(outbox', "TP1") = 1]_vars

\* C3: when the price of a pass reaches TP2 of the trade it evaluates, the
\* trade is closed with reason TP2, and no SL close and no stop-loss
\* notification comes with it.
C3_TP2ClosesWithoutSL ==
    (cycle.watched # <<>> /\ Reached(cycle.watched[1].side, cycle.price, cycle.watched[1].tp2))
    => /\ cycle.sym \notin DOMAIN active_trades
       /\ Len(trades_log) = 1
       /\ trades_log[1].exit_reason = "TP2"
       /\ \A i \in DOMAIN outbox : ~SLNotice(outbox[i])

NoBreach(tr, price) ==
    /\ ~Reached(tr.side, price, tr.tp1)
    /\ ~Reached(tr.side, price, tr.tp2)
    /\ ~SLReached(tr, price)

\* C4: a trade evaluated at a price that breaches no level, TRADE_EVAL_SECONDS
\* or more after it opened, is closed in that pass with reason TIME_EXPIRED
\* at the current price.
C4_TimeExpiryCloses ==
    (/\ cycle.watched # <<>>
     /\ NoBreach(cycle.watched[1], cycle.price)
     /\ cycle.at - cycle.watched[1].start_time >= TRADE_EVAL_SECONDS)
    => /\ cycle.sym \notin DOMAIN active_trades
       /\ Len(trades_log) = 1
       /\ trades_log[1].exit_reason = "TIME_EXPIRED"
       /\ trades_log[1].exit_price = cycle.price

\* C6: a pass whose decision equals the stored last decision sends no
\* Market Alert.
C6_NoAlertWithoutChange ==
    (Passed /\ cycle.prev = cycle.decision) => KindCount(outbox, "MarketAlert") = 0

\* C8: every trade open_trade creates has its levels strictly ordered:
\* sl < entry < tp1 < tp2 for BUY, sl > entry > tp1 > tp2 for SELL.
C8_CreatedLevelsOrdered ==
    cycle.opened => Ordered(cycle.watched[1])

\* C10: the pass that opens a trade does not close it and sends no target
\* or close notice for it.
C10_NoExitInOpeningPass ==
    cycle.opened
    => /\ cycle.sym \in DOMAIN active_trades
       /\ trades_log = <<>>
       /\ \A i \in DOMAIN outbox : outbox[i].kind \notin {"TP1", "TP2", "SL", "TradeClosed"}

C7_HoldAlertOncePerInterval ==
    [][\A s \in SymbolsOf(tv_symbols) :
         (\E i \in DOMAIN outbox' : outbox'[i].kind = "HoldTimeout" /\ outbox'[i].sym = s)
         => /\ KindCount(outbox', "HoldTimeout") = 1
            /\ cycle'.decision = "HOLD"
            /\ last_signals[s] = "HOLD"
            /\ hold_start_time[s] # NoTime
            /\ (now + JAKARTA_OFFSET) - hold_start_time[s] >= HOLD_ALERT_INTERVAL
            /\ hold_start_time'[s] = now + JAKARTA_OFFSET
            /\ Len(hold_alerts'[s]) = 2
               => hold_alerts'[s][2] - hold_alerts'[s][1] >= HOLD_ALERT_INTERVAL]_vars

\* a second HOLD alert has just been sent for a symbol
C7_Witness ==
    \E s \in SymbolsOf(tv_symbols) :
        /\ Len(hold_alerts[s]) = 2
        /\ \E i \in DOMAIN outbox : outbox[i].kind = "HoldTimeout" /\ outbox[i].sym = s

\* C9: evaluation leaves side, entry, sl, tp1, tp2 and open time of the
\* trade as open_trade set them: the trade a pass leaves behind has the
\* fields of the trade the pass evaluated, and they change in no step that
\* does not create the trade.
C9_EvaluationKeepsLevels ==
    [][\A s \in DOMAIN active_trades' :
         /\ (cycle'.sym = s /\ cycle'.watched # <<>>)
            => TradeFields(active_trades'[s]) = TradeFields(cycle'.watched[1])
         /\ (s \in DOMAIN active_trades /\ ~(cycle'.sym = s /\ cycle'.opened))
            => TradeFields(active_trades'[s]) = TradeFields(active_trades[s])]_vars

\* a trade opened in an earlier pass has just been evaluated at a price
\* that reached TP1, and is still open
C9_Witness ==
    /\ Passed
    /\ cycle.had_trade
    /\ ~cycle.opened
    /\ cycle.sym \in DOMAIN active_trades
    /\ cycle.at > active_trades[cycle.sym].start_time
    /\ Reached(cycle.watched[1].side, cycle.price, cycle.watched[1].tp1)

\* the trade the last pass evaluated was created by that pass
CreatedInPass ==
    /\ Passed
    /\ cycle.watched # <<>>
    /\ cycle.watched[1].start_time = cycle.at

\* C11: a trade is created only in a pass whose decision differs from the
\* stored last decision, is BUY or SELL, and finds no active trade for the
\* symbol; a pass whose decision equals the last decision creates none.
C11_OpensOnlyOnChangeWithoutTrade ==
    CreatedInPass
    => /\ cycle.prev # cycle.decision
       /\ cycle.decision \in {"BUY", "SELL"}
       /\ ~cycle.had_trade

ExitReasons == {"TP1", "TP2", "SL", "TIME_EXPIRED"}

\* both the take-profit close and the stop-loss close of trader_bot_futures
\* ran in the last pass: the second close_trade found no trade
ClosedTwice ==
    /\ variant = "fut"
    /\ cycle.watched # <<>>
    /\ ~cycle.watched[1].tp2_done
    /\ Reached(cycle.watched[1].side, cycle.price, cycle.watched[1].tp2)
    /\ SLReached(cycle.watched[1], cycle.price)

\* C12: close_trade for a symbol without active trade changes no state,
\* writes no row and sends nothing, however often it is called; a pass that
\* calls it again after the trade was closed writes the one row of the
\* first call.
C12_CloseAbsentIsNoOp ==
    /\ \A s \in SymbolsOf(tv_symbols) \ DOMAIN active_trades :
         \A p \in Prices, r \in ExitReasons :
            LET c == close_trade(active_trades, s, p, r, now)
                cc == close_trade(c.trades, s, p, r, now)
                f == close_trade_fut(active_trades, s, p, r, now)
                ff == close_trade_fut(f.trades, s, p, r, now)
            IN  /\ c.trades = active_trades /\ c.rows = <<>> /\ c.msgs = <<>>
                /\ cc = c
                /\ f.trades = active_trades /\ f.rows = <<>>
                /\ ff = f
    /\ ClosedTwice
       => /\ cycle.sym \notin DOMAIN active_trades
          /\ Len(trades_log) = 1
          /\ trades_log[1].exit_reason = "TP2"

\* trader_bot_futures has just closed a trade at TP2 and called close_trade
\* once more for its stop loss
C12_Witness ==
    /\ ClosedTwice
    /\ Len(trades_log) = 1

\* the last pass closed, at a tick of 102.5, a BUY trade of
\* pro_trader_bot_v2 with entry 100 and tp2 102
TP2Example(row) ==
    /\ variant = "v2"
    /\ row.exit_reason = "TP2"
    /\ row.side = "BUY"
    /\ row.entry_price = 100 * Micro
    /\ row.tp2 = 102 * Micro
    /\ cycle.price = 205 * (Micro \div 2)

\* C13 as stated: every TP2 close is recorded at the price of the tick that
\* triggered it; the example closes at 102.5 with a profit of 2.5 percent.
C13_TP2ClosesAtTick ==
    \A i \in DOMAIN trades_log :
        /\ trades_log[i].exit_reason = "TP2" => trades_log[i].exit_price = cycle.price
        /\ TP2Example(trades_log[i])
           => /\ trades_log[i].exit_price = 205 * (Micro \div 2)
              /\ trades_log[i].profit_pct = [num |-> 5, den |-> 2]

\* C13 as amended: every TP2 close is recorded at the trade's tp2 level,
\* whatever the tick was; the example closes at 102 with a profit of 2
\* percent.
C13_TP2ClosesAtLevel ==
    \A i \in DOMAIN trades_log :
        /\ trades_log[i].exit_reason = "TP2" => trades_log[i].exit_price = trades_log[i].tp2
        /\ TP2Example(trades_log[i])
           => /\ trades_log[i].exit_price = 102 * Micro
              /\ trades_log[i].profit_pct = [num |-> 2, den |-> 1]

\* the example has just happened
C13_Witness ==
    \E i \in DOMAIN trades_log :
        /\ TP2Example(trades_log[i])
        /\ cycle.price > trades_log[i].tp2

\* (exit - entry) / entry * 100 for BUY, (entry - exit) / entry * 100 for
\* SELL, computed on the prices divided by their common unit
StatedProfit(side, entry, exit_price) ==
    LET u == GCD(entry, exit_price)
        move == IF side = "BUY" THEN (exit_price \div u) - (entry \div u)
                ELSE (entry \div u) - (exit_price \div u)
    IN  Frac(100 * move, entry \div u)

\* C14 as stated: the profit of every closed trade is (exit - entry) / entry
\* * 100 for a BUY and (entry - exit) / entry * 100 for a SELL.
C14_ProfitIsPriceMove ==
    \A i \in DOMAIN trades_log :
        trades_log[i].profit_pct =
            StatedProfit(trades_log[i].side, trades_log[i].entry_price, trades_log[i].exit_price)

\* C14 as amended: that holds in pro_trader_bot_v2; trader_bot_futures
\* records the same price move multiplied by LEVERAGE.
C14_ProfitIsLeveragedMove ==
    \A i \in DOMAIN trades_log :
        LET move == StatedProfit(trades_log[i].side, trades_log[i].entry_price,
                                 trades_log[i].exit_price)
        IN  trades_log[i].profit_pct =
                (IF variant = "fut" THEN MulFrac(move, LEVERAGE) ELSE move)

\* a SELL trade has just been closed away from its entry price
C14_Witness ==
    \E i \in DOMAIN trades_log :
        /\ trades_log[i].side = "SELL"
        /\ trades_log[i].exit_price # trades_log[i].entry_price

\* the Combine step has returned
Combined == call.fn = "combine" /\ call.done

\* C15: for every three votes the decision is BUY iff two or more votes are
\* BUY, SELL iff two or more are SELL, and HOLD otherwise; [BUY,BUY,SELL]
\* gives BUY, [BUY,SELL,HOLD] gives HOLD and [SELL,SELL,SELL] gives SELL.
C15_MajorityOfThree ==
    Combined
    => /\ call.result = "BUY" <=> Count(call.args, "BUY") >= 2
       /\ call.result = "SELL" <=> Count(call.args, "SELL") >= 2
       /\ call.result = "HOLD" <=> (Count(call.args, "BUY") < 2 /\ Count(call.args, "SELL") < 2)
       /\ call.args = <<"BUY", "BUY", "SELL">> => call.result = "BUY"
       /\ call.args = <<"BUY", "SELL", "HOLD">> => call.result = "HOLD"
       /\ call.args = <<"SELL", "SELL", "SELL">> => call.result = "SELL"

\* three votes without majority have been combined
C15_Witness ==
    /\ Combined
    /\ call.args = <<"BUY", "SELL", "HOLD">>
    /\ call.result = "HOLD"

\* C16: the decision is the same for every reordering of the three votes.
C16_OrderOfVotesIrrelevant ==
    Combined
    => \A p \in Permutations(1..3) :
          combine([i \in 1..3 |-> call.args[p[i]]]) = call.result

\* votes with a single BUY in first place have been combined
C16_Witness ==
    /\ Combined
    /\ call.args[1] = "BUY"
    /\ call.args[2] # "BUY"
    /\ call.args[3] # "BUY"
    /\ call.result = "HOLD"

\* decimals kept for a price: 2 from 100, 4 from 1, 6 below
StatedDecimals(price) ==
    IF price >= 100 * Micro THEN 2
    ELSE IF price >= Micro /\ price < 100 * Micro THEN 4
    ELSE 6

\* a unit every price of LevelPrices of that tier is a multiple of
StatedUnit(price) ==
    IF price >= 100 * Micro THEN 1000 ELSE IF price >= Micro THEN 10 ELSE 1

\* price * m / d rounded to the decimals of the price's tier
StatedLevel(price, m, d) ==
    LET q == 10 ^ (6 - StatedDecimals(price))
        u == StatedUnit(price)
    IN  q * RoundHalfEven((price \div u) * m, d * (q \div u))

LevelsReturned == call.fn = "compute_levels" /\ call.done

C18_HoldLevelsArePrice ==
    (call.fn \in {"compute_levels", "compute_levels_fut"} /\ call.done /\ call.args.signal = "HOLD")
    => /\ call.result.entry = call.args.price
       /\ call.result.sl = call.args.price
       /\ call.result.tp1 = call.args.price
       /\ call.result.tp2 = call.args.price

\* the bots that keep hold_start_time (trader_bot_futures has none)
TracksHold == variant \in {"v2", "ma", "ai"}

C20_FlagsClearAtOpenAndClose ==
    /\ (CreatedInPass \/ (Passed /\ trades_log # <<>>))
       => active_targets[cycle.sym] = NoFlags
    /\ (CreatedInPass /\ variant = "fut")
       => (~cycle.watched[1].tp1_done /\ ~cycle.watched[1].tp2_done)

\* a trade of pro_trader_bot_v2 that went through the partial target block
\* in its opening pass has just been closed on expiry
C20_Witness ==
    /\ variant = "v2"
    /\ Passed
    /\ Len(trades_log) = 1
    /\ trades_log[1].exit_reason = "TIME_EXPIRED"
    /\ active_targets[cycle.sym] = NoFlags

\* ------------------------------------------------------------------------
\* Claims about errors, concurrent tasks, retries, history and dashboard
\* ------------------------------------------------------------------------
\* the pass over symbol s ended with an exception in this step
RaisedNow(s) == tasks'[s].pc = "raised" /\ tasks[s].pc # "raised"

\* C21: an error raised while one symbol is processed neither ends the
\* process nor keeps the other symbols of that loop iteration from being
\* processed: the loop goes on with exactly the symbols that were still to do
C21_ErrorsAreIsolated ==
    [][\A s \in SymbolsOf(tv_symbols) :
          RaisedNow(s) => pc' # "dead" /\ todo' = Remove(todo, s)]_vars

\* the price fetch of the pass over symbol s failed, or gave no price, in
\* this step
NoPriceNow(s) ==
    \/ tasks[s].pc = "fetching" /\ tasks'[s].pc = "done" /\ ~cycle'.fetched
    \/ tasks[s].at # "price" /\ tasks'[s].at = "price"

\* C22: a pass whose price fetch fails or gives no usable price changes
\* nothing of any symbol's history, decision, hold start, target flags or
\* trade, sends nothing, and leaves the loop running, so that the symbol is
\* processed again in the next cycle
C22_NoPriceIsNoOp ==
    [][\A s \in SymbolsOf(tv_symbols) :
          NoPriceNow(s) =>
              /\ UNCHANGED <<price_history, last_signals, hold_start_time,
                             active_targets, active_trades>>
              /\ outbox' = <<>>
              /\ pc' # "dead"]_vars

\* a vote fetch of the pass over symbol s ended without data in this step
MissingNow(s) == tasks'[s].missing /\ tasks'[s] # tasks[s]

MarketAlertsIn(msgs, s) ==
    {i \in DOMAIN msgs : msgs[i].kind = "MarketAlert" /\ msgs[i].sym = s}

\* C23: in a pass where a vote fetch failed or gave no recommendation, the
\* BUY or SELL decision the symbol had is kept and no Market Alert is sent
\* for the symbol, and the process keeps running
C23_MissingVotesKeepDecision ==
    [][\A s \in SymbolsOf(tv_symbols) :
          (variant = "v2" /\ MissingNow(s) /\ last_signals[s] \in {"BUY", "SELL"}) =>
              /\ last_signals'[s] = last_signals[s]
              /\ MarketAlertsIn(outbox', s) = {}
              /\ pc' # "dead"]_vars

\* statements that write a log or send a notification
IOPoints == {"chart", "trades_csv", "alerts_csv"}

\* C24: when a notification or log write of a pass fails, the transition it
\* belongs to is already applied: the decision of the pass is recorded as
\* the symbol's last decision, and a trade whose close was being logged is
\* no longer active
C24_CommittedBeforeIO ==
    [][\A s \in SymbolsOf(tv_symbols) :
          (RaisedNow(s) /\ tasks'[s].at \in IOPoints) =>
              /\ last_signals'[s] = tasks'[s].decision
              /\ tasks'[s].at = "trades_csv" => s \notin DOMAIN active_trades']_vars

\* the price or vote fetch of the pass over symbol s has not returned yet
FetchPending(s) == tasks[s].pc \in {"fetching", "price", "votes"}

\* the pass over symbol s takes its next step
StepFor(s) ==
    \/ BeginV2(s)
    \/ FutStart(s)
    \/ \E price \in PairPrices : FutPrice(s, price)
    \/ \E fetched \in FetchedVotes : FutVotes(s, fetched)
    \/ FutResume(s)
    \/ FutReturn(s)

\* C25: while the fetch of one symbol is pending, the pass over any other
\* symbol that is still to do in this loop iteration can start and go on:
\* none waits for another symbol's fetch to return
C25_NoWaitingForOthersFetch ==
    \A x \in SymbolsOf(tv_symbols), y \in SymbolsOf(tv_symbols) :
        (variant \in {"v2", "fut"} /\ pc = "symbols" /\ x # y /\ FetchPending(x)
            /\ y \in SymbolsOf(todo) /\ tasks[y].pc \notin {"done", "raised"})
        => ENABLED StepFor(y)

\* task s is suspended in a send_telegram of its monitor block
SuspendedInMonitor(s) == tasks[s].pc \in {"tp1_sent", "tp2_sent", "sl_sent"}

\* C26: the debounce-and-lifecycle transition of a pass has no suspension
\* point inside: a task that has suspended after a mutation of the
\* transition changes no decision and no trade when it is resumed
C26_NoMutationAfterSuspension ==
    [][\A s \in SymbolsOf(tv_symbols) :
          (SuspendedInMonitor(s) /\ tasks'[s] # tasks[s])
              => UNCHANGED <<last_signals, active_trades>>]_vars

\* what the bot holds for symbol y
EntriesOf(y) ==
    <<price_history[y], last_signals[y], hold_start_time[y], active_targets[y],
      IF y \in DOMAIN active_trades THEN <<active_trades[y]>> ELSE <<>> >>

\* C27: whatever the interleaving of the tasks, a step of the task of symbol
\* x changes the history, the last decision, the trade and the target flags
\* of x only: the entries of every other symbol stay as they are
C27_TaskWritesOwnEntries ==
    [][\A x \in SymbolsOf(tv_symbols), y \in SymbolsOf(tv_symbols) :
          (pc = "symbols" /\ tasks'[x] # tasks[x] /\ y # x)
              => EntriesOf(y)' = EntriesOf(y)]_vars

\* the ETHUSDT task has closed its trade while the BTCUSDT task, which holds
\* an open trade, is suspended in the middle of its monitor block
C27_Witness ==
    /\ variant = "fut"
    /\ tasks["BTCUSDT"].pc = "tp1_sent"
    /\ "BTCUSDT" \in DOMAIN active_trades
    /\ cycle.sym = "ETHUSDT"
    /\ tasks["ETHUSDT"].pc = "tp2_sent"
    /\ trades_log # <<>>

\* C28: whatever the fetches end with, a vote fetcher makes at most `retries`
\* attempts, returns its fallback ("HOLD" or None) when all of them raised,
\* and does return
C28_FetchTerminates ==
    /\ [](call.fn \in Fetchers =>
             /\ call.attempt <= call.args.retries
             /\ (call.done /\ call.attempt = call.args.retries)
                    => call.result \in {"HOLD", "None"})
    /\ <>(call.fn \in Fetchers => call.done)

\* get_tv_analysis gave up after `retries` rate-limit errors
C28_Witness ==
    /\ call.fn = "get_tv_analysis"
    /\ call.done
    /\ call.args.retries = 3
    /\ call.attempt = 3
    /\ call.slept = 30 + 60 + 120
    /\ call.result = "None"

\* C29: no price history ever holds more than its maxlen prices, and a pass
\* that got a price turns the history into the old one, without its oldest
\* price when it was full, followed by the new price
C29_HistoryBounded ==
    /\ [](\A s \in SymbolsOf(tv_symbols) : Len(price_history[s]) <= maxlen(variant))
    /\ [][cycle'.fetched =>
             LET s == cycle'.sym
                 old == price_history[s]
             IN  price_history'[s] =
                     Append(IF Len(old) = maxlen(variant) THEN Tail(old) ELSE old,
                            cycle'.price)]_vars

\* trader_bot_futures has made one pass more than its history holds, every
\* 300 s: the price of the first pass is gone
C29_Witness ==
    /\ variant = "fut"
    /\ now = CANDLE_HISTORY_FUT * 300
    /\ cycle.fetched
    /\ cycle.at = now
    /\ LET q == price_history["BTCUSDT"]
       IN  /\ Len(q) = CANDLE_HISTORY_FUT
           /\ q[Len(q)] = cycle.price
           /\ q[1] # q[Len(q)]

\* the step sent the dashboard
DashboardSent(msgs) == msgs # <<>> /\ msgs[1].kind = "Dashboard"

\* C30: a dashboard pass only reads: it leaves the last decision, the hold
\* start, the price history, the target flags and the trade of every symbol
\* as they were
C30_DashboardReadsOnly ==
    [][DashboardSent(outbox') =>
           UNCHANGED <<last_signals, hold_start_time, price_history,
                       active_targets, active_trades>>]_vars

\* the dashboard has just reported an open trade
C30_Witness ==
    /\ DashboardSent(outbox)
    /\ "BTCUSDT" \in DOMAIN active_trades
    /\ outbox[1].level = 1
    /\ price_history["BTCUSDT"] # <<>>
    /\ last_dashboard >= DASHBOARD_INTERVAL

\* ------------------------------------------------------------------------
\* Claims about trade exits, alerts of one cycle and reported profit
\* ------------------------------------------------------------------------
\* C31: no trade stays open for ever: a trade that is still active after a
\* pass of its symbol that got a price is younger than TRADE_EVAL_SECONDS
C31_NoTradeOutlivesLimit ==
    \A s \in DOMAIN active_trades :
        (cycle.fetched /\ cycle.sym = s)
            => cycle.at - active_trades[s].start_time < TRADE_EVAL_SECONDS

\* notifications of the last step that report the exit of a trade: "hit TP2 -
\* trade closed" and "hit Stop Loss - trade closed" of trader_bot_futures,
\* "Trade Closed" of pro_trader_bot_v2
ExitReports ==
    IF variant = "fut" THEN KindCount(outbox, "TP2") + KindCount(outbox, "SL")
    ELSE IF variant = "v2" THEN KindCount(outbox, "TradeClosed")
    ELSE 0

\* C32: a pass reports at most one exit of the trade it evaluates: at most
\* one trade-log row and at most one trade-closed or stop-loss notification,
\* whatever exit conditions the price satisfies
C32_OneExitPerTrade ==
    /\ Len(trades_log) <= 1
    /\ ExitReports <= 1

\* C33: in one pass of one symbol a decision-change alert and a hold-timeout
\* alert are never both sent
C33_ChangeAndHoldAlertsExclude ==
    ~(KindCount(outbox, "MarketAlert") > 0 /\ KindCount(outbox, "HoldTimeout") > 0)

\* C34: the sign of the reported profit matches the exit reason: a row closed
\* with reason TP1 or TP2 has a positive profit, a row closed with reason SL
\* a negative one
C34_ProfitSignMatchesReason ==
    \A i \in 1..Len(trades_log) :
        LET row == trades_log[i]
        IN  /\ row.exit_reason \in {"TP1", "TP2"} => row.profit_pct.num * row.profit_pct.den > 0
            /\ row.exit_reason = "SL" => row.profit_pct.num * row.profit_pct.den < 0

\* a pass of the symbol that kept the decision d of the last Market Alert
KeptDecision(d) ==
    /\ variant = "ma"
    /\ cycle.fetched
    /\ call.fn = "Market Alert"
    /\ cycle.decision = d
    /\ cycle.prev = d

\* C35: the TP/SL alerts track the levels of the last Market Alert: after a
\* pass that kept the decision BUY (SELL) and whose price is at or beyond an
\* announced level, the alert of that level has been sent
C35_AlertsTrackAnnouncedLevels ==
    /\ KeptDecision("BUY") =>
          /\ cycle.price >= call.result.tp1 => active_targets[cycle.sym].tp1_sent
          /\ cycle.price >= call.result.tp2 => active_targets[cycle.sym].tp2_sent
          /\ cycle.price <= call.result.sl => active_targets[cycle.sym].sl_sent
    /\ KeptDecision("SELL") =>
          /\ cycle.price <= call.result.tp1 => active_targets[cycle.sym].tp1_sent
          /\ cycle.price <= call.result.tp2 => active_targets[cycle.sym].tp2_sent
          /\ cycle.price >= call.result.sl => active_targets[cycle.sym].sl_sent

\* C36: trading_signal_bot sends a signal for a symbol exactly when the
\* direction it reads is LONG or SHORT and differs from the direction of the
\* last signal sent for the symbol; a reading without direction sends
\* nothing and leaves the stored signal as it was
C36_SentIffDirectionChanged ==
    (variant = "tsb" /\ cycle.fetched) =>
        /\ cycle.sent = 1 <=> (cycle.decision # "None" /\ cycle.decision # cycle.prev_sent)
        /\ cycle.sent \in {0, 1}
        /\ cycle.decision = "None" => last_signals[cycle.sym] = cycle.prev

\* the generated signal repeats the stored one: same direction, entry,
\* stop-loss and take-profit
RepeatsStored(sig, stored) ==
    /\ sig.signal # "None"
    /\ sig.signal = stored.signal
    /\ sig.entry = stored.entry
    /\ sig.sl = stored.sl
    /\ sig.tp = stored.tp

\* C37: the hourly bots send only new signals: a pass whose signal repeats
\* the stored one sends no message, appends no log line and increments no
\* daily counter
C37_RepeatedSignalIsSilent ==
    (variant = "hourly" /\ cycle.fetched /\ RepeatsStored(cycle.read, cycle.prev)) =>
        /\ cycle.sent = 0
        /\ cycle.logged = 0
        /\ cycle.counted = 0

\* C38: every position of pro_trader_bot_v3 is monitored: a position that is
\* still in open_positions after a round of its symbol is younger than the
\* 10 minutes of check_trade, and no position is written over one that is
\* still open
C38_PositionsAreMonitored ==
    (variant = "v3" /\ cycle.fetched) =>
        /\ cycle.sym \in DOMAIN active_trades =>
               cycle.at - active_trades[cycle.sym].time < RESULT_MINUTES * 60
        /\ ~(cycle.had_trade /\ cycle.opened)

====
